---- MODULE Spec2Model ----
(***************************************************************************)
(* Search orchestration and distributed coordination engine of Zakrom:     *)
(* the Redis-backed traffic-control primitives (lock, circuit breaker,     *)
(* in-flight limiter, sliding-window rate limiter), the Google Places      *)
(* gateway's searchText and the search orchestrator's entry protocol and   *)
(* billing.                                                                *)
(*                                                                         *)
(* Every `await` of the source is an atomicity boundary: one action of the *)
(* model is one Redis / database command (or one MULTI / Lua script) with  *)
(* the synchronous code around it.  Time is a discrete clock; a key        *)
(* written with EX / PX carries its remaining time to live and disappears  *)
(* when a Tick brings it to zero.                                          *)
(*                                                                         *)
(* Each subsystem has its own specification over its own variables; the    *)
(* variables of the other subsystems stay at their initial values.         *)
(***************************************************************************)
EXTENDS Integers, Sequences, FiniteSets, TLC

\* ------------------------------------------------------------------ bounds

\* concurrent callers of the lock primitives
NLockCallers == 3
\* randomUUID() tokens drawn in one run of the lock specification
MaxTokens == 4
\* ttlMs of acquireLock, in clock ticks
LockTtlTicks == 2

\* concurrent searchText calls
NGwCallers == 2
\* concurrent withCircuitBreaker calls around an arbitrary work callback
NCbCallers == 2
\* concurrent withInflightLimiter calls around an arbitrary work callback
NIlCallers == 2
\* maxConcurrent of withInflightLimiter (100 in searchText), scaled down
MaxConcurrent == 1
\* failureThreshold of withCircuitBreaker (50 in searchText), scaled down
FailureThreshold == 2
\* resetTimeoutSec of withCircuitBreaker (60 s in searchText), in clock ticks
ResetTimeoutTicks == 2
\* ttlSec of withInflightLimiter (30 s in searchText), in clock ticks
InflightTtlTicks == 1
\* largest credential pool (GOOGLE_API_KEYS) considered; 0 keys = not configured
MaxApiKeys == 2

\* concurrent rateLimitSlidingWindow calls on one key
NRlCallers == 2
\* rateLimitSlidingWindow calls made in all
MaxRlCalls == 4
\* windowSec, in clock ticks of one second
WindowTicks == 2
\* the clock stops here
MaxRlClock == 4
\* the largest limit passed to rateLimitSlidingWindow
MaxLimit == 2

\* concurrent executeSearchCore calls for one user
NBlCallers == 2
\* the largest balance the user starts with
MaxCredits == 11
\* executeSearchCore calls made in all
MaxBlCalls == 3

\* concurrent searchPlacesAsync calls with one normalized (city, keyword, pageToken)
NAsCallers == 2
\* users calling searchPlacesAsync
NAsUsers == 2
\* the job lock's PX 10000, in clock ticks
JobLockTtlTicks == 1
\* the tracker's EX 60, in clock ticks
TrackerTtlTicks == 2
\* for (let i = 0; i < 5; i++): polls of the tracker by a caller without the lock
PollAttempts == 5

\* the largest resultsPerSearch of a plan
MaxPlanCap == 70
\* pageSize: options.pageSize || 20, the most places one provider page holds
ProviderPageSize == 20
\* allPlaces.length >= 60: where the provider's own paging ends
GoogleLimit == 60

\* distinct places the provider knows for one (city, keyword)
NPlaceIds == 3
\* the most places a grid scan returns, duplicates included
MaxScan == 3
\* the largest DEEP_PAGE_SIZE configured, in places (the code clamps it to
\* [10, 500]; the smallest is scaled to one place)
MaxDeepPageSize == 2
\* the most places one provider page holds, on the scale of MaxDeepPageSize
DeepProviderPage == 2
\* the largest MAX_DEEP_PAGES configured
MaxDeepPages == 2
\* the largest balance read by a deep-search initiation
MaxDeepBalance == 11

\* distinct page tokens the provider hands out
NScanTokens == 2
\* grid sectors of one scanCity call
NSectors == 2
\* the largest maxPagesPerGrid passed to scanCity
MaxPagesPerGrid == 2

\* concurrent searchPlaces calls for one city and keyword
NSpCallers == 3
\* remaining PX ticks of a fresh lock:<cacheKey> (LOCK_TTL_MS)
SpLockTtlTicks == 2
\* polls one waitForValue makes before its deadline (WAIT_FOR_CACHE_MS / WAIT_POLL_MS)
MaxWaitPolls == 2

\* places that searches persist and the enrichment worker scrapes
NEnPlaces == 2
\* executeSearchCore calls running persistAndPublish concurrently
NEnSearches == 2
\* jobs the enrichment worker runs at a time (ENRICHMENT_CONCURRENCY)
NEnWorkers == 2
\* enrichment jobs enqueued in one behaviour
MaxEnJobs == 3

\* viewport corners lie at whole degrees in -MaxCoord..MaxCoord
MaxCoord == 1
\* the largest gridSize passed to generateGrid, counted in halves
MaxGridHalves == 43
\* the upper clamp of generateGrid
MaxGridSize == 20

LockCallers == 1..NLockCallers
GwCallers == 1..NGwCallers
CbCallers == 1..NCbCallers
IlCallers == 1..NIlCallers
RlCallers == 1..NRlCallers
BlCallers == 1..NBlCallers
AsCallers == 1..NAsCallers

\* a key that is not set
Absent == 0
\* a key written without EX / PX
NoExpiry == 0

VARIABLES
    \* ---- DistributedLock (traffic-control: acquireLock / releaseLock)
    lockValue,     \* value stored under the lock key, Absent when not set
    lockTtl,       \* remaining PX time of the lock key, 0 when not set
    nextToken,     \* the next randomUUID()
    myToken,       \* caller -> token its last acquireLock returned, 0 = null
    lkLast,        \* the last lock operation that ran: what it was given and saw
    holders        \* tokens acquireLock returned since the key was last absent

VARIABLES
    \* ---- CircuitBreaker, InflightLimiter and PlacesGateway.searchText
    cbState,       \* cb:google-places:state, "CLOSED" when the key is not set
    cbTtl,         \* remaining EX time of the state key, 0 when not set
    cbFailures,    \* cb:google-places:failures (no expiry), 0 when not set
    inflight,      \* google-places:inflight counter, 0 when not set
    inflightTtl,   \* remaining EX time of the counter key, 0 = no expiry
    apiKeys,       \* GOOGLE_API_KEYS.length
    currentKeyIndex,
    gwPc,          \* caller -> where its call stands
    attempt,       \* caller -> attempt of the retry loop
    gwRequests,    \* caller -> upstream requests the call has issued
    gwLastResp,    \* caller -> how the call's latest upstream request ended
    gwWaited,      \* caller -> ms slept before the call's latest request
    gwKey,         \* caller -> index of the apiKey of the call's latest request, -1 = none
    gwErr,         \* caller -> the error travelling up the call, "none" if none
    gwOutcome,     \* caller -> how its latest finished call ended
    cbStreak,      \* failing calls completed back to back since the breaker
                   \* last opened, a call succeeded or two calls overlapped
    cbSince,       \* failures counted since the state key was last written
                   \* OPEN, up to failureThreshold
    cbOther        \* an error other than the limiter's rejection was counted since
                   \* the failure counter was last deleted

VARIABLES
    \* ---- rateLimitSlidingWindow on one key
    rlClock,       \* Date.now(), in ticks
    rlLimit,       \* the limit the callers pass
    rlZset,        \* the sorted set: <<score, member>> pairs
    rlExpireAt,    \* the time the key expires at
    rlNow,         \* caller -> the now its pending call captured, -1 = no call
    rlStarted,     \* calls begun so far; makes the members distinct
    rlLog          \* the calls that returned, in the order Redis ran them

VARIABLES
    \* ---- executeSearchCore: the credits of one user
    credits,       \* user.credits in the durable store
    blPc,          \* caller -> where its executeSearchCore call stands
    blKind,        \* caller -> "new", "deepNew", "deep" (deep:<n> token), "token"
                   \* (provider page token) or one of the two sentinels
    blOutcome,     \* caller -> how its latest finished call ended
    blCalls,       \* calls begun so far
    blDebit,       \* caller -> credits its current call has taken off the balance
    blLedger,      \* caller -> amounts of the ledger entries its current call appended
    blCached,      \* caller -> its current call wrote its result under cacheKey
    blUpstream,    \* caller -> provider searches its current call has asked for
    blPersist,     \* caller -> its current call has run persistAndPublish (upserts, publish)
    blHistory,     \* caller -> searchHistory records its current call created
    blInitial,     \* the balance the user started with
    blLedgerAll    \* sum of the amounts of all creditTransaction rows of the user

VARIABLES
    \* ---- searchPlacesAsync for one cache key
    asCache,       \* search:<city>:<keyword>:<token>: the job whose result it holds, 0 = not set
    asReq,         \* caller -> userId and deepSearch of its call
    jobLock,       \* lock:job:<cacheKey>: the token stored, Absent when not set
    jobLockTtl,    \* remaining PX time of the job lock
    asTracker,     \* active-job:<cacheKey>: a job id, 0 = not set
    asTrackerTtl,  \* remaining EX time of the tracker
    asJobs,        \* ids addSearchJob has returned
    asRan,         \* jobs the worker has completed
    asTokens,      \* tokens randomUUID() has produced
    asPc,          \* caller -> where its searchPlacesAsync call stands
    asToken,       \* caller -> lockToken, 0 = null
    asPolls,       \* caller -> i of the polling loop
    asRet          \* caller -> what the call returns (or throws), and how the
                   \* releaseLock of its finally block went

VARIABLES
    \* ---- executeSearchCore: the paging loop of a new standard search
    ssCap,         \* STANDARD_PAGE_SIZE = plan.resultsPerSearch
    ssPc,          \* "loop" while fetching, "done" once nextToken is set
    ssAll,         \* allPlaces.length
    ssFetches,     \* fetchCount
    ssToken,       \* currentToken is set
    ssNext         \* nextToken: "undefined", a sentinel or "raw" (currentToken)

VARIABLES
    \* ---- executeSearchCore: deep search, its cached lists and the Record Store
    dpPageSize,    \* DEEP_PAGE_SIZE
    dpMaxPages,    \* MAX_DEEP_PAGES
    dpHasIds,      \* search:list:<city>:<keyword> is set
    dpIds,         \* the id list stored under it
    dpHasSlim,     \* search:list:data:<city>:<keyword> is set
    dpSlim,        \* the slim places stored under it (by place id)
    dpDb,          \* googleId of the place rows, in table order
    dpLast,        \* the last operation: what it was given, returned and published
    dpChain        \* the caller that follows the tokens from the initiation on:
                   \* pages it got, their places in order, the token it holds

VARIABLES
    \* ---- scanCity: one call; sector s is the s-th grid point
    scMaxPages,    \* MAX_PAGES_PER_GRID
    scPc,          \* sector -> "run", "returned" (the loop ended) or "caught"
    scGot,         \* sector -> the places searchText has returned to it so far
    scPages,       \* sector -> pageCount
    scTok,         \* sector -> nextPageToken, 0 = undefined
    scReq,         \* sector -> pageToken of its searchText call under way, NoReq if none
    scRes,         \* sector -> the value its callback resolved with
    scOut          \* what scanCity settled with

VARIABLES
    \* ---- GridGenerator.generateGrid: one call
    gdViewport,    \* the viewport argument, in whole degrees
    gdHalves,      \* the gridSize argument, counted in halves
    gdPc,          \* "call" or "done"
    gdPoints       \* the returned points

VARIABLES
    \* ---- searchPlaces without page token, for one city and keyword
    spCache,       \* the cached results (Redis and SearchCache): <<key, writer>> pairs
    spLock,        \* lock:<cacheKey>: the token stored, Absent when not set
    spLockTtl,     \* remaining PX time of the lock
    spTokens,      \* tokens randomUUID() has produced
    spPc,          \* caller -> where its searchPlaces call stands
    spToken,       \* caller -> lockToken, 0 = null
    spPolls,       \* caller -> polls its waitForValue has made
    spRet          \* caller -> what the call returns (or throws), whose search it
                   \* comes from, and how the releaseLock of its finally block went

VARIABLES
    \* ---- persistAndPublish and the enrichment worker
    enStatus,      \* place -> scrapeStatus of its row, "none" without a row
    enEmails,      \* place -> its row has emails
    enQueue,       \* place -> enrichment jobs waiting for it
    enJobs,        \* jobs enqueued so far
    enSaved,       \* search -> savedPlace, the row its upsert returned
    enWork         \* worker slot -> the job it runs and where it stands

VARIABLES
    \* ---- scanCity's sectors at the in-flight limiter
    gsSectors,     \* grid points of the scan
    gsWaiting,     \* sectors whose first searchText has not yet done its INCR
    gsHolding,     \* sectors inside the limiter, request under way
    gsRejecting,   \* sectors over the cap that have not yet done their DECR
    gsInflight,    \* the counter google-places:inflight
    gsRejected     \* some sector was rejected and returned []

lockVars == <<lockValue, lockTtl, nextToken, myToken, lkLast, holders>>
enVars == <<enStatus, enEmails, enQueue, enJobs, enSaved, enWork>>
gsVars == <<gsSectors, gsWaiting, gsHolding, gsRejecting, gsInflight, gsRejected>>
cbVars == <<cbState, cbTtl, cbFailures, cbStreak, cbSince, cbOther>>
ilVars == <<inflight, inflightTtl>>
keyVars == <<apiKeys, currentKeyIndex>>
callVars == <<gwPc, attempt, gwRequests, gwLastResp, gwWaited, gwKey, gwErr, gwOutcome>>
gwVars == <<cbVars, ilVars, keyVars, callVars>>

rlVars == <<rlClock, rlLimit, rlZset, rlExpireAt, rlNow, rlStarted, rlLog>>
blTrace == <<blDebit, blLedger, blCached, blUpstream, blPersist, blHistory>>
blBooks == <<blInitial, blLedgerAll>>
blVars == <<credits, blPc, blKind, blOutcome, blCalls, blTrace, blBooks>>
asStore == <<asCache, jobLock, jobLockTtl, asTracker, asTrackerTtl, asJobs, asRan, asTokens>>
asVars == <<asStore, asPc, asToken, asPolls, asRet, asReq>>
ssVars == <<ssCap, ssPc, ssAll, ssFetches, ssToken, ssNext>>
dpVars == <<dpPageSize, dpMaxPages, dpHasIds, dpIds, dpHasSlim, dpSlim, dpDb, dpLast, dpChain>>
scVars == <<scMaxPages, scPc, scGot, scPages, scTok, scReq, scRes, scOut>>
gdVars == <<gdViewport, gdHalves, gdPc, gdPoints>>
spVars == <<spCache, spLock, spLockTtl, spTokens, spPc, spToken, spPolls, spRet>>

vars == <<lockVars, gwVars, rlVars, blVars, asVars, enVars, gsVars, ssVars, dpVars, scVars, gdVars, spVars>>

\* what each subsystem leaves alone
\* the subsystems modelled one call (or one key) at a time
pureVars == <<ssVars, dpVars, scVars, gdVars, spVars>>
besidesLock == <<gwVars, rlVars, blVars, asVars, enVars, gsVars, pureVars>>
besidesGw == <<lockVars, rlVars, blVars, asVars, enVars, gsVars, pureVars>>
besidesRl == <<lockVars, gwVars, blVars, asVars, enVars, gsVars, pureVars>>
besidesBl == <<lockVars, gwVars, rlVars, asVars, enVars, gsVars, pureVars>>
besidesAs == <<lockVars, gwVars, rlVars, blVars, enVars, gsVars, pureVars>>
besidesEn == <<lockVars, gwVars, rlVars, blVars, asVars, gsVars, pureVars>>
besidesGs == <<lockVars, gwVars, rlVars, blVars, asVars, enVars, pureVars>>
storeVars == <<lockVars, gwVars, rlVars, blVars, asVars, enVars, gsVars>>
besidesSs == <<storeVars, dpVars, scVars, gdVars, spVars>>
besidesDp == <<storeVars, ssVars, scVars, gdVars, spVars>>
besidesSc == <<storeVars, ssVars, dpVars, gdVars, spVars>>
besidesGd == <<storeVars, ssVars, dpVars, scVars, spVars>>
besidesSp == <<storeVars, ssVars, dpVars, scVars, gdVars>>

\* ------------------------------------------------- every subsystem at rest

\* no lock operation has run
NoLockOp ==
    [op |-> "none", caller |-> 0, token |-> 0, before |-> Absent, beforeTtl |-> 0,
     result |-> "none"]

LockStart ==
    /\ lockValue = Absent
    /\ lockTtl = 0
    /\ nextToken = 1
    /\ myToken = [c \in LockCallers |-> 0]
    /\ lkLast = NoLockOp
    /\ holders = {}

\* no call has been made by any of the callers; n credentials are configured
GwStart(Callers, n) ==
    /\ cbState = "CLOSED"
    /\ cbTtl = 0
    /\ cbFailures = 0
    /\ cbStreak = 0
    /\ cbSince = 0
    /\ cbOther = FALSE
    /\ inflight = 0
    /\ inflightTtl = 0
    /\ apiKeys = n
    /\ currentKeyIndex = 0
    /\ gwPc = [c \in Callers |-> "idle"]
    /\ attempt = [c \in Callers |-> 0]
    /\ gwRequests = [c \in Callers |-> 0]
    /\ gwLastResp = [c \in Callers |-> "none"]
    /\ gwWaited = [c \in Callers |-> 0]
    /\ gwKey = [c \in Callers |-> -1]
    /\ gwErr = [c \in Callers |-> "none"]
    /\ gwOutcome = [c \in Callers |-> "none"]

\* no rateLimitSlidingWindow call has been made; every call passes limit
RlStart(limit) ==
    /\ rlClock = 0
    /\ rlLimit = limit
    /\ rlZset = {}
    /\ rlExpireAt = 0
    /\ rlNow = [c \in RlCallers |-> -1]
    /\ rlStarted = 0
    /\ rlLog = <<>>

\* no executeSearchCore call has been made; the user owns n credits
BlStart(n) ==
    /\ credits = n
    /\ blPc = [c \in BlCallers |-> "idle"]
    /\ blKind = [c \in BlCallers |-> "none"]
    /\ blOutcome = [c \in BlCallers |-> "none"]
    /\ blCalls = 0
    /\ blDebit = [c \in BlCallers |-> 0]
    /\ blLedger = [c \in BlCallers |-> <<>>]
    /\ blCached = [c \in BlCallers |-> FALSE]
    /\ blUpstream = [c \in BlCallers |-> 0]
    /\ blPersist = [c \in BlCallers |-> FALSE]
    /\ blHistory = [c \in BlCallers |-> 0]
    /\ blInitial = n
    /\ blLedgerAll = 0

\* what a searchPlacesAsync call has not returned yet
NoReturn == [type |-> "none", id |-> 0, released |-> "no"]

\* no searchPlacesAsync call has been made and nothing is cached
AsStart ==
    /\ asCache = 0
    /\ jobLock = Absent
    /\ jobLockTtl = 0
    /\ asTracker = 0
    /\ asTrackerTtl = 0
    /\ asJobs = {}
    /\ asRan = {}
    /\ asTokens = 0
    /\ asPc = [c \in AsCallers |-> "idle"]
    /\ asToken = [c \in AsCallers |-> 0]
    /\ asPolls = [c \in AsCallers |-> 0]
    /\ asRet = [c \in AsCallers |-> NoReturn]
    /\ asReq = [c \in AsCallers |-> [userId |-> 0, deepSearch |-> FALSE]]

\* no standard search has begun; the user's plan allows cap results
SsStart(cap) ==
    /\ ssCap = cap
    /\ ssPc = "loop"
    /\ ssAll = 0
    /\ ssFetches = 0
    /\ ssToken = FALSE
    /\ ssNext = "undefined"

\* nothing has been done yet
NoDeepOp ==
    [op |-> "none", token |-> 0, again |-> FALSE, balance |-> 0, viewport |-> FALSE,
     scanned |-> 0, raw |-> <<>>, ok |-> FALSE, places |-> <<>>, next |-> 0, published |-> {}]

\* nobody is following tokens (no initiation yet, or a list key was dropped)
NoChain == [live |-> FALSE, pages |-> 0, got |-> <<>>, next |-> 0]

\* no deep search has run; the configuration is pageSize and maxPages
DpStart(pageSize, maxPages) ==
    /\ dpPageSize = pageSize
    /\ dpMaxPages = maxPages
    /\ dpHasIds = FALSE
    /\ dpIds = <<>>
    /\ dpHasSlim = FALSE
    /\ dpSlim = <<>>
    /\ dpDb = <<>>
    /\ dpLast = NoDeepOp
    /\ dpChain = NoChain

\* scanCity has just mapped its callback over the grid points
NoReq == 0 - 1

ScStart(maxPages) ==
    /\ scMaxPages = maxPages
    /\ scPc = [p \in 1..NSectors |-> "run"]
    /\ scGot = [p \in 1..NSectors |-> <<>>]
    /\ scPages = [p \in 1..NSectors |-> 0]
    /\ scTok = [p \in 1..NSectors |-> 0]
    /\ scReq = [p \in 1..NSectors |-> NoReq]
    /\ scRes = [p \in 1..NSectors |-> <<>>]
    /\ scOut = [state |-> "pending", value |-> <<>>]

\* generateGrid is about to run
GdStart(viewport, halves) ==
    /\ gdViewport = viewport
    /\ gdHalves = halves
    /\ gdPc = "call"
    /\ gdPoints = <<>>

\* a viewport one degree wide and one degree high
UnitViewport ==
    [southwest |-> [lat |-> 0, lng |-> 0], northeast |-> [lat |-> 1, lng |-> 1]]

\* no persistAndPublish is under way and no job is running
NoSaved == [place |-> 0, scrapeStatus |-> "none", emails |-> FALSE]

NoWork == [pc |-> "idle", place |-> 0]

\* no place has a row and the enrichment queue is empty
EnStart ==
    /\ enStatus = [p \in 1..NEnPlaces |-> "none"]
    /\ enEmails = [p \in 1..NEnPlaces |-> FALSE]
    /\ enQueue = [p \in 1..NEnPlaces |-> 0]
    /\ enJobs = 0
    /\ enSaved = [s \in 1..NEnSearches |-> NoSaved]
    /\ enWork = [w \in 1..NEnWorkers |-> NoWork]

\* a scan of n grid points, none of which has reached the limiter; the
\* in-flight counter is at 0 (no other upstream traffic)
GsStart(n) ==
    /\ gsSectors = n
    /\ gsWaiting = n
    /\ gsHolding = 0
    /\ gsRejecting = 0
    /\ gsInflight = 0
    /\ gsRejected = FALSE

\* no searchPlaces call has been made and nothing is cached
SpStart ==
    /\ spCache = {}
    /\ spLock = Absent
    /\ spLockTtl = 0
    /\ spTokens = 0
    /\ spPc = [c \in 1..NSpCallers |-> "idle"]
    /\ spToken = [c \in 1..NSpCallers |-> 0]
    /\ spPolls = [c \in 1..NSpCallers |-> 0]
    /\ spRet = [c \in 1..NSpCallers |-> [type |-> "none", from |-> 0, released |-> "no"]]

\* every subsystem besides the stores is at rest
PureStart ==
    /\ SsStart(ProviderPageSize) /\ DpStart(1, 1) /\ ScStart(1) /\ GdStart(UnitViewport, 2)
    /\ SpStart /\ EnStart /\ GsStart(0)

\* ------------------------------------------------------- DistributedLock

\* redis.set(key, token, "PX", ttlMs, "NX"): "OK" iff the key was absent
SetNxMutant(value, token) == TRUE
SetNx(value, token) == value = Absent

\* RELEASE_LOCK_LUA: DEL iff GET == ARGV[1]; the value left under the key
ReleaseLuaMutant(value, token) == Absent
RELEASE_LOCK_LUA(value, token) == IF value = token THEN Absent ELSE value

\* try { await redis.eval(...) } catch { }: releaseLock returns either way
ReleaseOutcomeMutant(evalThrows) == IF evalThrows THEN "threw" ELSE "returned"
ReleaseOutcome(evalThrows) == IF evalThrows THEN "swallowed" ELSE "returned"

\* acquireLock(key, ttlMs)
acquireLock(c) ==
    /\ UNCHANGED besidesLock
    /\ myToken[c] = 0
    /\ nextToken <= MaxTokens
    /\ nextToken' = nextToken + 1
    /\ IF SetNx(lockValue, nextToken)
         THEN /\ lockValue' = nextToken
              /\ lockTtl' = LockTtlTicks
              /\ myToken' = [myToken EXCEPT ![c] = nextToken]
              /\ holders' = holders \cup {nextToken}
              /\ lkLast' = [op |-> "acquire", caller |-> c, token |-> nextToken,
                            before |-> lockValue, beforeTtl |-> lockTtl,
                            result |-> "token"]
         ELSE /\ UNCHANGED <<lockValue, lockTtl, myToken, holders>>
              /\ lkLast' = [op |-> "acquire", caller |-> c, token |-> nextToken,
                            before |-> lockValue, beforeTtl |-> lockTtl,
                            result |-> "null"]

\* releaseLock(key, token): the script runs, or redis.eval rejects and the
\* catch block swallows the error
releaseLock(c) ==
    /\ UNCHANGED besidesLock
    /\ myToken[c] # 0
    /\ myToken' = [myToken EXCEPT ![c] = 0]
    /\ UNCHANGED nextToken
    /\ \E evalThrows \in BOOLEAN :
         /\ lockValue' = IF evalThrows THEN lockValue
                                       ELSE RELEASE_LOCK_LUA(lockValue, myToken[c])
         /\ lockTtl' = IF lockValue' = Absent THEN 0 ELSE lockTtl
         /\ holders' = IF lockValue' = Absent THEN {} ELSE holders
         /\ lkLast' = [op |-> "release", caller |-> c, token |-> myToken[c],
                       before |-> lockValue, beforeTtl |-> lockTtl,
                       result |-> ReleaseOutcome(evalThrows)]

\* one clock tick: the PX time of the lock key runs down and the key expires
LockTick ==
    /\ UNCHANGED besidesLock
    /\ lockValue # Absent
    /\ lockTtl' = lockTtl - 1
    /\ lockValue' = IF lockTtl' = 0 THEN Absent ELSE lockValue
    /\ holders' = IF lockTtl' = 0 THEN {} ELSE holders
    /\ lkLast' = [NoLockOp EXCEPT !.op = "tick"]
    /\ UNCHANGED <<nextToken, myToken>>

LockNext ==
    \/ \E c \in LockCallers : acquireLock(c)
    \/ \E c \in LockCallers : releaseLock(c)
    \/ LockTick

LockInit == PureStart /\ LockStart /\ AsStart /\ BlStart(0) /\ GwStart(GwCallers, 0) /\ RlStart(0)

SpecLock == LockInit /\ [][LockNext]_vars

C3_ReleaseFrame ==
    lkLast.op = "release" =>
        /\ lkLast.result \in {"returned", "swallowed"}
        /\ lkLast.before # lkLast.token =>
              lockValue = lkLast.before /\ lockTtl = lkLast.beforeTtl
        /\ lockValue # lkLast.before =>
              lkLast.before = lkLast.token /\ lockValue = Absent

\* a caller whose lock expired releases after another caller re-acquired
C3_Witness ==
    /\ lkLast.op = "release" /\ lkLast.result = "returned"
    /\ lkLast.before # Absent /\ lkLast.before # lkLast.token
    /\ \E c \in LockCallers : myToken[c] = lkLast.before

\* ------------------------------- CircuitBreaker / InflightLimiter / searchText

\* const maxAttempts = 3
maxAttempts == 3

\* [429, 500, 502, 503, 504].includes(response.status): "retryable" stands for
\* these statuses, "terminal" for every other non-ok status, "abort" for the
\* AbortError of fetchWithTimeout, "neterr" for any other rejection of fetch
\* or of response.json()
Responses == {"ok", "retryable", "terminal", "abort", "neterr"}

\* redis.incr(key): the value afterwards
IncrMutant(value) == value + 2
Incr(value) == value + 1

\* if (state === "OPEN") throw
CbIsOpenMutant(state) == FALSE
CbIsOpen(state) == state = "OPEN"

\* if (failures >= actualFailureThreshold)
CbTripsMutant(failures) == failures > FailureThreshold
CbTrips(failures) == failures >= FailureThreshold

\* redis.set(stateKey, "OPEN", "EX", actualResetTimeoutSec): the expiry written
CbExpiryMutant == NoExpiry
CbExpiry == ResetTimeoutTicks

\* if (current > maxConcurrent)
IlOverMutant(current) == FALSE
IlOver(current) == current > MaxConcurrent

\* isRetryable && attempt < maxAttempts - 1
RetryHttpMutant(resp, att) == resp = "retryable"
RetryHttp(resp, att) == resp = "retryable" /\ att < maxAttempts - 1

\* error.name === 'AbortError' && attempt < maxAttempts - 1
RetryAbortMutant(resp, att) == resp \in {"abort", "neterr"} /\ att < maxAttempts - 1
RetryAbort(resp, att) == resp = "abort" /\ att < maxAttempts - 1

\* Math.min(1000 * 2 ** attempt, 4000)
Backoff(att) == IF 1000 * (2 ^ att) < 4000 THEN 1000 * (2 ^ att) ELSE 4000

\* the error a response that is not retried raises
\* (the message of an HTTP error carries the status)
ErrorOf(resp) ==
    CASE resp = "retryable" -> "httpRetryable"
      [] resp = "terminal" -> "httpTerminal"
      [] resp = "abort" -> "abort"
      [] resp = "neterr" -> "network"

\* callers inside the work callback of withInflightLimiter
InWork(c) == gwPc[c] \in {"loop", "resp", "work"}
\* callers inside withCircuitBreaker
InCall(c) == gwPc[c] \notin {"idle", "done"}

\* the process starts with its credential pool read from the environment
GwInit == PureStart /\ LockStart /\ AsStart /\ BlStart(0) /\ RlStart(0) /\ \E n \in 0..MaxApiKeys : GwStart(GwCallers, n)

\* the locals of the retry loop; they go out of scope when the loop is left
loopVars == <<attempt, gwRequests, gwLastResp, gwWaited, gwKey>>

LoopLocals(c, att, reqs, resp, waited, key) ==
    /\ attempt' = [attempt EXCEPT ![c] = att]
    /\ gwRequests' = [gwRequests EXCEPT ![c] = reqs]
    /\ gwLastResp' = [gwLastResp EXCEPT ![c] = resp]
    /\ gwWaited' = [gwWaited EXCEPT ![c] = waited]
    /\ gwKey' = [gwKey EXCEPT ![c] = key]

\* the call moves on, carrying the error err (if any) upwards
Goto(c, pc, err) ==
    /\ gwPc' = [gwPc EXCEPT ![c] = pc]
    /\ gwErr' = [gwErr EXCEPT ![c] = err]
    /\ UNCHANGED gwOutcome

\* the call returns ("ok") or throws to its caller
Finish(c, outcome) ==
    /\ gwPc' = [gwPc EXCEPT ![c] = "done"]
    /\ gwErr' = [gwErr EXCEPT ![c] = "none"]
    /\ gwOutcome' = [gwOutcome EXCEPT ![c] = outcome]

\* what leaves the work callback reaches withCircuitBreaker's try/catch when
\* the call is wrapped by it (searchText), and the caller otherwise
Leave(c, err, wrapped) ==
    IF ~wrapped
      THEN /\ Finish(c, IF err = "none" THEN "ok" ELSE err)
           /\ UNCHANGED cbStreak
      ELSE IF err = "none"
      THEN \* const result = await work(); return result
           /\ Finish(c, "ok")
           /\ cbStreak' = 0
      ELSE /\ Goto(c, "cbIncr", err)
           /\ UNCHANGED cbStreak

\* withCircuitBreaker: const state = await redis.get(stateKey);
\* if (state === "OPEN") throw new Error("... (Circuit Breaker OPEN)");
\* otherwise work() is called: inner is where it starts
CbEnter(c, inner) ==
    /\ gwPc[c] = "idle"
    /\ IF CbIsOpen(cbState)
         THEN /\ Finish(c, "unavailable")
              /\ UNCHANGED cbStreak
         ELSE /\ Goto(c, inner, "none")
              /\ cbStreak' = IF \E d \in DOMAIN gwPc \ {c} : InCall(d) THEN 0 ELSE cbStreak
    /\ UNCHANGED <<besidesGw, cbState, cbTtl, cbFailures, cbSince, cbOther, ilVars, keyVars, loopVars>>

\* a call of withInflightLimiter that no breaker wraps begins
IlEnter(c) ==
    /\ gwPc[c] = "idle"
    /\ Goto(c, "ilIncr", "none")
    /\ UNCHANGED <<besidesGw, cbVars, ilVars, keyVars, loopVars>>

\* withInflightLimiter: const current = await redis.incr(key);
\* if (current === 1) await redis.expire(key, ttlSec);
\* inner is where work() starts
IlIncr(c, inner) ==
    /\ gwPc[c] = "ilIncr"
    /\ inflight' = inflight + 1
    /\ inflightTtl' = IF inflight' = 1 THEN InflightTtlTicks ELSE inflightTtl
    /\ Goto(c, IF IlOver(inflight') THEN "ilReject" ELSE inner, "none")
    /\ UNCHANGED <<besidesGw, cbVars, keyVars, loopVars>>

\* if (current > maxConcurrent) { await redis.decr(key); throw new Error(...) }
IlReject(c, wrapped) ==
    /\ gwPc[c] = "ilReject"
    /\ inflight' = inflight - 1
    /\ Leave(c, "capacity", wrapped)
    /\ UNCHANGED <<besidesGw, cbState, cbTtl, cbFailures, cbSince, cbOther, inflightTtl, keyVars, loopVars>>

\* an arbitrary work callback ends, after any time, with a result or an error
Work(c, ok, inLimiter) ==
    /\ gwPc[c] = "work"
    /\ IF inLimiter
         THEN /\ Goto(c, "ilDecr", IF ok THEN "none" ELSE "workError")
              /\ UNCHANGED cbStreak
         ELSE Leave(c, IF ok THEN "none" ELSE "workError", TRUE)
    /\ UNCHANGED <<besidesGw, cbState, cbTtl, cbFailures, cbSince, cbOther, ilVars, keyVars, loopVars>>

\* searchText: while (attempt < maxAttempts) { const apiKey = this.getNextApiKey();
\*   ... await this.fetchWithTimeout(...) : the request leaves.
\* getNextApiKey throws when no credential is configured.
\* (The throw after the loop, "Max retries exceeded", is never reached: the
\* loop is only continued with attempt < maxAttempts.)
IssueRequest(c) ==
    /\ gwPc[c] = "loop"
    /\ attempt[c] < maxAttempts
    /\ IF apiKeys = 0
         THEN /\ Goto(c, "ilDecr", "config")
              /\ LoopLocals(c, 0, 0, "none", 0, -1)
              /\ UNCHANGED currentKeyIndex
         ELSE \* const key = GOOGLE_API_KEYS[this.currentKeyIndex]
              /\ currentKeyIndex' = (currentKeyIndex + 1) % apiKeys
              /\ Goto(c, "resp", "none")
              /\ LoopLocals(c, attempt[c], gwRequests[c] + 1, "none", 0, currentKeyIndex)
    /\ UNCHANGED <<besidesGw, cbVars, ilVars, apiKeys>>

\* the request ends: a response, the timeout's abort, or another rejection
Response(c, resp) ==
    /\ gwPc[c] = "resp"
    /\ IF resp = "ok"
         THEN \* return { places, nextPageToken }
              /\ Goto(c, "ilDecr", "none")
              /\ LoopLocals(c, 0, 0, "none", 0, -1)
         ELSE IF RetryHttp(resp, attempt[c])
         THEN \* await sleep(backoff); attempt++; continue
              /\ Goto(c, "loop", "none")
              /\ LoopLocals(c, attempt[c] + 1, gwRequests[c], resp, Backoff(attempt[c]), gwKey[c])
         ELSE IF RetryAbort(resp, attempt[c])
         THEN \* attempt++; continue
              /\ Goto(c, "loop", "none")
              /\ LoopLocals(c, attempt[c] + 1, gwRequests[c], resp, 0, gwKey[c])
         ELSE \* throw
              /\ Goto(c, "ilDecr", ErrorOf(resp))
              /\ LoopLocals(c, 0, 0, "none", 0, -1)
    /\ UNCHANGED <<besidesGw, cbVars, ilVars, keyVars>>

\* withInflightLimiter: finally { await redis.decr(key) }
IlDecr(c, wrapped) ==
    /\ gwPc[c] = "ilDecr"
    /\ inflight' = inflight - 1
    /\ Leave(c, gwErr[c], wrapped)
    /\ UNCHANGED <<besidesGw, cbState, cbTtl, cbFailures, cbSince, cbOther, inflightTtl, keyVars, loopVars>>

\* withCircuitBreaker: catch (error) {
\*   const failures = await redis.incr(failureCountKey);
\*   if (failures >= actualFailureThreshold) ... ; throw error }
CbIncr(c) ==
    /\ gwPc[c] = "cbIncr"
    /\ cbFailures' = Incr(cbFailures)
    /\ cbOther' = (cbOther \/ gwErr[c] # "capacity")
    /\ cbStreak' = IF \E d \in DOMAIN gwPc \ {c} : InCall(d) THEN 0 ELSE cbStreak + 1
    /\ cbSince' = IF cbSince < FailureThreshold THEN cbSince + 1 ELSE cbSince
    /\ IF CbTrips(cbFailures')
         THEN Goto(c, "cbOpen", gwErr[c])
         ELSE Finish(c, gwErr[c])
    /\ UNCHANGED <<besidesGw, cbState, cbTtl, ilVars, keyVars, loopVars>>

\* await redis.set(stateKey, "OPEN", "EX", actualResetTimeoutSec)
CbOpen(c) ==
    /\ gwPc[c] = "cbOpen"
    /\ cbState' = "OPEN"
    /\ cbTtl' = CbExpiry
    /\ cbStreak' = 0
    /\ cbSince' = 0
    /\ Goto(c, "cbDel", gwErr[c])
    /\ UNCHANGED <<besidesGw, cbFailures, cbOther, ilVars, keyVars, loopVars>>

\* await redis.del(failureCountKey); throw error
CbDel(c) ==
    /\ gwPc[c] = "cbDel"
    /\ cbFailures' = 0
    /\ cbOther' = FALSE
    /\ Finish(c, gwErr[c])
    /\ UNCHANGED <<besidesGw, cbState, cbTtl, cbStreak, cbSince, ilVars, keyVars, loopVars>>

\* the caller has its result or error and may call again
GwReturn(c) ==
    /\ gwPc[c] = "done"
    /\ gwPc' = [gwPc EXCEPT ![c] = "idle"]
    /\ gwOutcome' = [gwOutcome EXCEPT ![c] = "none"]
    /\ UNCHANGED <<besidesGw, cbVars, ilVars, keyVars, loopVars, gwErr>>

\* one clock tick: the EX times of the breaker's state key and of the in-flight
\* counter run down; a key whose time is up disappears.  A key written
\* without expiry stays.
GwTick ==
    /\ cbTtl > 0 \/ inflightTtl > 0
    /\ cbTtl' = IF cbTtl > 0 THEN cbTtl - 1 ELSE 0
    /\ cbState' = IF cbTtl = 1 THEN "CLOSED" ELSE cbState
    /\ inflightTtl' = IF inflightTtl > 0 THEN inflightTtl - 1 ELSE 0
    /\ inflight' = IF inflightTtl = 1 THEN 0 ELSE inflight
    /\ UNCHANGED <<besidesGw, cbFailures, cbStreak, cbSince, cbOther, keyVars, callVars>>

\* ---- withCircuitBreaker around an arbitrary work callback

CbInit == PureStart /\ LockStart /\ AsStart /\ BlStart(0) /\ RlStart(0) /\ GwStart(CbCallers, 0)

\* a step of a withCircuitBreaker call already under way
CbProceed(c) ==
    \/ \E ok \in BOOLEAN : Work(c, ok, FALSE)
    \/ CbIncr(c)
    \/ CbOpen(c)
    \/ CbDel(c)

CbNext ==
    \/ \E c \in CbCallers : CbEnter(c, "work")
    \/ \E c \in CbCallers : CbProceed(c)
    \/ \E c \in CbCallers : GwReturn(c)
    \/ GwTick

SpecBreaker == CbInit /\ [][CbNext]_vars

\* time passes, Redis answers and the work callback ends
SpecBreakerFair ==
    /\ CbInit
    /\ [][CbNext]_vars
    /\ WF_vars(GwTick)
    /\ \A c \in CbCallers : WF_vars(CbProceed(c))

\* ---- withInflightLimiter around an arbitrary work callback

IlInit == PureStart /\ LockStart /\ AsStart /\ BlStart(0) /\ RlStart(0) /\ GwStart(IlCallers, 0)

IlNext ==
    \/ \E c \in IlCallers : IlEnter(c)
    \/ \E c \in IlCallers : IlIncr(c, "work")
    \/ \E c \in IlCallers : IlReject(c, FALSE)
    \/ \E c \in IlCallers, ok \in BOOLEAN : Work(c, ok, TRUE)
    \/ \E c \in IlCallers : IlDecr(c, FALSE)
    \/ \E c \in IlCallers : GwReturn(c)
    \/ GwTick

SpecLimiter == IlInit /\ [][IlNext]_vars

\* ---- searchText: withCircuitBreaker(withInflightLimiter(retry loop))

\* a step of a searchText call already under way
GwProceed(c) ==
    \/ IlIncr(c, "loop")
    \/ IlReject(c, TRUE)
    \/ IssueRequest(c)
    \/ \E resp \in Responses : Response(c, resp)
    \/ IlDecr(c, TRUE)
    \/ CbIncr(c)
    \/ CbOpen(c)
    \/ CbDel(c)

GwNext ==
    \/ \E c \in GwCallers : CbEnter(c, "ilIncr")
    \/ \E c \in GwCallers : GwProceed(c)
    \/ \E c \in GwCallers : GwReturn(c)
    \/ GwTick

SpecGateway == GwInit /\ [][GwNext]_vars

\* time passes, Redis answers, and every upstream request ends (with a response
\* or with the abort of the per-request timeout)
SpecGatewayFair ==
    /\ GwInit
    /\ [][GwNext]_vars
    /\ WF_vars(GwTick)
    /\ \A c \in GwCallers : WF_vars(GwProceed(c))

\* C4: when failureThreshold calls in a row have failed (no call succeeded and
\* no two calls overlapped in between), the breaker has been tripped: the call
\* whose failure completes the run writes the state key OPEN with expiry
\* resetTimeoutSec, and after it the call still rethrows its own error.
C4_StreakTrips ==
    cbStreak >= FailureThreshold => \E c \in CbCallers : gwPc[c] = "cbOpen"

C4_OpenStep ==
    \A c \in CbCallers :
        /\ gwPc[c] = "cbOpen" /\ gwPc'[c] # "cbOpen" =>
              /\ cbState' = "OPEN"
              /\ cbTtl' = ResetTimeoutTicks
              /\ gwPc'[c] = "cbDel"
              /\ gwErr'[c] = gwErr[c]
        /\ gwPc[c] = "cbDel" /\ gwPc'[c] # "cbDel" =>
              /\ gwPc'[c] = "done"
              /\ gwOutcome'[c] = gwErr[c]
              /\ gwErr[c] \notin {"none", "unavailable"}

C4_ThresholdOpens == []C4_StreakTrips /\ [][C4_OpenStep]_vars

\* the last of failureThreshold back-to-back failing calls has opened the breaker
C4_Witness ==
    \E c \in CbCallers :
        /\ gwPc[c] = "cbDel"
        /\ cbState = "OPEN" /\ cbTtl = ResetTimeoutTicks
        /\ cbFailures = FailureThreshold
        /\ \A d \in CbCallers \ {c} : gwPc[d] = "idle"

\* C5: a call that reads OPEN on entry fails with the service-unavailable
\* error in that very step: the work is not invoked, the failure counter, the
\* in-flight counter and the credential rotator are untouched and no upstream
\* request is issued.
C5_Step ==
    \A c \in GwCallers :
        gwPc[c] = "idle" /\ gwPc'[c] # "idle" /\ cbState = "OPEN" =>
            /\ gwPc'[c] = "done"
            /\ gwOutcome'[c] = "unavailable"
            /\ gwRequests'[c] = 0
            /\ UNCHANGED <<cbVars, ilVars, keyVars, loopVars>>

C5_OpenFailsFast == [][C5_Step]_vars

\* a call was refused by the open breaker
C5_Witness ==
    \E c \in GwCallers :
        gwPc[c] = "done" /\ gwOutcome[c] = "unavailable" /\ cbState = "OPEN"

\* C6: the state key is OPEN only with an expiry of at most resetTimeoutSec
\* pending, an OPEN breaker is CLOSED again later, and a call that enters
\* while the breaker is CLOSED goes on to the wrapped work.
C6_EnterClosed ==
    \A c \in CbCallers :
        gwPc[c] = "idle" /\ gwPc'[c] # "idle" /\ cbState = "CLOSED" =>
            gwPc'[c] = "work"

C6_OpenExpires ==
    /\ [](cbState = "OPEN" => cbTtl \in 1..ResetTimeoutTicks)
    /\ (cbState = "OPEN" ~> cbState = "CLOSED")
    /\ [][C6_EnterClosed]_vars

\* the breaker a call opened has closed again by expiry, before that call
\* even deleted the failure counter
C6_Witness ==
    \E c \in CbCallers : gwPc[c] = "cbDel" /\ cbState = "CLOSED"

\* C7: the number of work callbacks running inside withInflightLimiter never
\* exceeds maxConcurrent.
C7_InflightCap ==
    Cardinality({c \in IlCallers : InWork(c)}) <= MaxConcurrent


\* C9: a searchText call issues at most maxAttempts = 3 upstream requests; it
\* issues another request only after an abort or a retryable HTTP status, and
\* only twice; every other outcome of a request ends the loop with the result or
\* with that request's error; and every call comes to an end.
C9_Bounded ==
    \A c \in GwCallers :
        /\ gwRequests[c] <= maxAttempts
        /\ attempt[c] < maxAttempts
        /\ gwPc[c] = "loop" => gwRequests[c] = attempt[c]
        /\ gwPc[c] = "resp" => gwRequests[c] = attempt[c] + 1

C9_Step ==
    \A c \in GwCallers :
        gwPc[c] = "resp" /\ gwPc'[c] # "resp" =>
            \/ /\ gwPc'[c] = "loop"
               /\ gwLastResp'[c] \in {"abort", "retryable"}
               /\ attempt[c] < maxAttempts - 1
               /\ attempt'[c] = attempt[c] + 1
            \/ /\ gwPc'[c] = "ilDecr"
               /\ gwErr'[c] \in {"none", "httpTerminal", "network"}
            \/ /\ gwPc'[c] = "ilDecr"
               /\ gwErr'[c] \in {"httpRetryable", "abort"}
               /\ attempt[c] = maxAttempts - 1

C9_AtMostThreeRequests ==
    /\ []C9_Bounded
    /\ [][C9_Step]_vars
    /\ \A c \in GwCallers : InCall(c) ~> gwPc[c] = "done"

\* a call is waiting for the answer to its third request
C9_Witness ==
    \E c \in GwCallers :
        gwPc[c] = "resp" /\ gwRequests[c] = maxAttempts

\* ------------------------------------------------- rateLimitSlidingWindow

\* one more request than the limit passes
RlAllowedMutant(count, limit) == count <= limit + 1

\* return { allowed: count <= limit }
RlAllowed(count, limit) == count <= limit

\* multi.zremrangebyscore(key, 0, min): both ends of the range are included
RlRemoved(score, min) == 0 <= score /\ score <= min

\* the same with the member `${now}` alone, without the random tag
RlAfterAddMutant(zset, now, member) ==
    {e \in zset : ~RlRemoved(e[1], now - WindowTicks)} \cup {<<now, 0>>}

\* the sorted set after zremrangebyscore and zadd
RlAfterAdd(zset, now, member) ==
    {e \in zset : ~RlRemoved(e[1], now - WindowTicks)} \cup {<<now, member>>}

RlInit == PureStart /\ LockStart /\ AsStart /\ BlStart(0) /\ GwStart(GwCallers, 0) /\ \E limit \in 0..MaxLimit : RlStart(limit)

\* if (!Number.isFinite(limit) || limit <= 0) return { allowed: true }
RlBypass(c) ==
    /\ rlNow[c] = -1
    /\ rlStarted < MaxRlCalls
    /\ rlLimit <= 0
    /\ rlStarted' = rlStarted + 1
    /\ rlLog' = Append(rlLog, [now |-> rlClock, done |-> rlClock, allowed |-> TRUE])
    /\ UNCHANGED <<besidesRl, rlClock, rlLimit, rlZset, rlExpireAt, rlNow>>

\* const now = Date.now(); const min = now - windowMs; the transaction is sent
RlBegin(c) ==
    /\ rlNow[c] = -1
    /\ rlStarted < MaxRlCalls
    /\ rlLimit > 0
    /\ rlStarted' = rlStarted + 1
    /\ rlNow' = [rlNow EXCEPT ![c] = rlClock]
    /\ UNCHANGED <<besidesRl, rlClock, rlLimit, rlZset, rlExpireAt, rlLog>>

\* Redis runs the MULTI block in one piece: zremrangebyscore, zadd (the member
\* `${now}-${Math.random()}` is taken to be new), zcard, expire(windowSec + 1);
\* the call returns { allowed: count <= limit }
RlExec(c) ==
    /\ rlNow[c] >= 0
    /\ LET zset == RlAfterAdd(rlZset, rlNow[c], Len(rlLog) + 1)
           count == Cardinality(zset)
       IN  /\ rlZset' = zset
           /\ rlLog' = Append(rlLog, [now |-> rlNow[c], done |-> rlClock,
                                      allowed |-> RlAllowed(count, rlLimit)])
    /\ rlExpireAt' = rlClock + WindowTicks + 1
    /\ rlNow' = [rlNow EXCEPT ![c] = -1]
    /\ UNCHANGED <<besidesRl, rlClock, rlLimit, rlStarted>>

\* one second passes; the key disappears when its expiry time has come
RlTick ==
    /\ rlClock < MaxRlClock
    /\ rlClock' = rlClock + 1
    /\ IF rlExpireAt > 0 /\ rlClock' >= rlExpireAt
         THEN rlZset' = {} /\ rlExpireAt' = 0
         ELSE UNCHANGED <<rlZset, rlExpireAt>>
    /\ UNCHANGED <<besidesRl, rlLimit, rlNow, rlStarted, rlLog>>

RlNext ==
    \/ \E c \in RlCallers : RlBypass(c)
    \/ \E c \in RlCallers : RlBegin(c)
    \/ \E c \in RlCallers : RlExec(c)
    \/ RlTick

SpecRateLimit == RlInit /\ [][RlNext]_vars

\* C8: with a limit > 0, a call that is (at least) the (limit+1)th of the
\* calls made and answered within less than one window is refused; a call
\* made one window or more after every earlier call is allowed.
C8_Refused ==
    \A k \in DOMAIN rlLog :
        /\ rlLog[k].done - rlLog[k].now < WindowTicks
        /\ Cardinality({i \in 1..k : rlLog[k].done - rlLog[i].now < WindowTicks}) >= rlLimit + 1
        => ~rlLog[k].allowed

C8_AllowedAfterWait ==
    \A k \in DOMAIN rlLog :
        (\A i \in 1..(k - 1) : rlLog[i].now + WindowTicks <= rlLog[k].now)
            => rlLog[k].allowed

C8_SlidingWindow == rlLimit > 0 => C8_Refused /\ C8_AllowedAfterWait

\* limit+1 calls within one window, the last refused; then a call after a full
\* window's wait, allowed
C8_Witness ==
    /\ rlLimit > 0
    /\ \E k, m \in DOMAIN rlLog :
          /\ k < m
          /\ ~rlLog[k].allowed
          /\ Cardinality({i \in 1..k : rlLog[k].done - rlLog[i].now < WindowTicks}) = rlLimit + 1
          /\ rlLog[m].allowed
          /\ \A i \in 1..(m - 1) : rlLog[i].now + WindowTicks <= rlLog[m].now

\* ------------------------------------------------- executeSearchCore: billing

BlKinds == {"new", "deepNew", "deep", "token", "google_limit_reached", "plan_limit_reached"}

\* if (initialPageToken && initialPageToken.startsWith("deep:")) : branch A
\* else if (!initialPageToken) : branch B;  else : branch C
BlBranch(kind) ==
    IF kind = "deep" THEN "A"
    ELSE IF kind \in {"new", "deepNew"} THEN "B"
    ELSE "C"

\* let requiredCredits = 1; if (!initialPageToken && deepSearch) requiredCredits = 10
requiredCredits(kind) == IF kind = "deepNew" THEN 10 ELSE 1

\* branch C: updateMany({ where: { id }, data: { credits: { decrement: 1 } } })
BlTokenCharge(balance) == balance - 1

\* branch B: the where clause { id, credits: { gte: requiredCredits } } matches
BlNewMatches(balance, cost) == balance >= cost

\* creditTransaction.create({ data: { amount: -requiredCredits, ... } })
BlLedgerAmountMutant(cost) == -1

BlLedgerAmount(cost) == -cost

\* if (!isPaidPagination) tx.searchHistory.create(...): isPaidPagination is set
\* only for a deep:<n> token
BlLogsHistory(kind) == kind # "deep"

\* if (user.credits < requiredCredits) throw new Error("Yetersiz bakiye. ...")
BlInsufficientMutant(balance, cost) == FALSE

BlInsufficient(balance, cost) == balance < cost

BlInit ==
    /\ PureStart /\ LockStart /\ AsStart /\ GwStart(GwCallers, 0) /\ RlStart(0)
    /\ \E n \in 0..MaxCredits : BlStart(n)

BlGoto(c, pc) ==
    /\ blPc' = [blPc EXCEPT ![c] = pc]
    /\ UNCHANGED blOutcome

BlFinish(c, outcome) ==
    /\ blPc' = [blPc EXCEPT ![c] = "done"]
    /\ blOutcome' = [blOutcome EXCEPT ![c] = outcome]

\* user = await prisma.user.findUnique(...); the cost is determined;
\* if (user.credits < requiredCredits) throw new Error("Yetersiz bakiye. ...")
BlFetchUser(c, kind) ==
    /\ blPc[c] = "idle"
    /\ blCalls < MaxBlCalls
    /\ blCalls' = blCalls + 1
    /\ blKind' = [blKind EXCEPT ![c] = kind]
    /\ IF BlInsufficient(credits, requiredCredits(kind))
         THEN BlFinish(c, "insufficient")
         ELSE BlGoto(c, "run")
    /\ UNCHANGED <<besidesBl, credits, blTrace, blBooks>>

\* branch A (deep:<n> token): the page is read from the stored lists and
\* returned by the return at the end of the function; no statement of this
\* branch writes user.credits, the ledger or cacheKey, or calls the gateway;
\* the page that is returned went through persistAndPublish
BlDeepPage(c, ok) ==
    /\ blPc[c] = "run"
    /\ BlBranch(blKind[c]) = "A"
    /\ BlFinish(c, IF ok THEN "ok" ELSE "error")
    /\ blPersist' = [blPersist EXCEPT ![c] = ok]
    /\ UNCHANGED <<besidesBl, credits, blKind, blCalls, blDebit, blLedger, blCached, blUpstream, blHistory, blBooks>>

\* branches B and C: googlePlacesGateway is asked, and answers or throws;
\* branch B hands the places to persistAndPublish before it bills
BlSearch(c, ok) ==
    /\ blPc[c] = "run"
    /\ BlBranch(blKind[c]) \in {"B", "C"}
    /\ blUpstream' = [blUpstream EXCEPT ![c] = blUpstream[c] + 1]
    /\ IF ok
         THEN BlGoto(c, "bill")
         ELSE BlFinish(c, "error")
    /\ blPersist' = [blPersist EXCEPT ![c] = ok /\ BlBranch(blKind[c]) = "B"]
    /\ UNCHANGED <<besidesBl, credits, blKind, blCalls, blDebit, blLedger, blCached, blHistory, blBooks>>

\* branch B: the billing transaction.  updated.count === 0 throws
\* "Yetersiz bakiye."; a statement of the transaction that throws (ok false)
\* rejects the call; either way prisma.$transaction rolls back what it did
BlBillNew(c, ok) ==
    /\ blPc[c] = "bill"
    /\ BlBranch(blKind[c]) = "B"
    /\ IF ~BlNewMatches(credits, requiredCredits(blKind[c]))
         THEN /\ UNCHANGED <<credits, blDebit, blLedger, blHistory, blLedgerAll>>
              /\ BlFinish(c, "insufficient")
         ELSE IF ok
         THEN /\ credits' = credits - requiredCredits(blKind[c])
              /\ blDebit' = [blDebit EXCEPT ![c] = blDebit[c] + requiredCredits(blKind[c])]
              /\ blLedger' = [blLedger EXCEPT ![c] =
                                 Append(blLedger[c], BlLedgerAmount(requiredCredits(blKind[c])))]
              /\ blLedgerAll' = blLedgerAll + BlLedgerAmount(requiredCredits(blKind[c]))
              /\ blHistory' = [blHistory EXCEPT ![c] =
                                  blHistory[c] + (IF BlLogsHistory(blKind[c]) THEN 1 ELSE 0)]
              /\ BlGoto(c, "cache")
         ELSE /\ UNCHANGED <<credits, blDebit, blLedger, blHistory, blLedgerAll>>
              /\ BlFinish(c, "error")
    /\ UNCHANGED <<besidesBl, blKind, blCalls, blCached, blUpstream, blPersist, blInitial>>

\* branch B: redis.set(cacheKey, finalResult, EX) and searchCache.upsert, then
\* return finalResult; a failed write rejects the call after it was billed
BlCacheWrite(c, ok) ==
    /\ blPc[c] = "cache"
    /\ IF ok
         THEN /\ blCached' = [blCached EXCEPT ![c] = TRUE]
              /\ BlFinish(c, "ok")
         ELSE /\ UNCHANGED blCached
              /\ BlFinish(c, "error")
    /\ UNCHANGED <<besidesBl, credits, blKind, blCalls, blDebit, blLedger, blUpstream, blPersist, blHistory, blBooks>>

\* branch C: the billing transaction of a provider-token page (rolled back
\* when one of its statements throws, ok false), then persistAndPublish and
\* the return at the end of the function
BlBillToken(c, ok) ==
    /\ blPc[c] = "bill"
    /\ BlBranch(blKind[c]) = "C"
    /\ IF ok
         THEN /\ credits' = BlTokenCharge(credits)
              /\ blDebit' = [blDebit EXCEPT ![c] = blDebit[c] + (credits - credits')]
              /\ blLedger' = [blLedger EXCEPT ![c] = Append(blLedger[c], -1)]
              /\ blLedgerAll' = blLedgerAll - 1
              /\ BlFinish(c, "ok")
              /\ blPersist' = [blPersist EXCEPT ![c] = TRUE]
         ELSE /\ UNCHANGED <<credits, blDebit, blLedger, blLedgerAll, blPersist>>
              /\ BlFinish(c, "error")
    /\ UNCHANGED <<besidesBl, blKind, blCalls, blCached, blUpstream, blHistory, blInitial>>

\* the caller has its result or error and may call again
BlReturn(c) ==
    /\ blPc[c] = "done"
    /\ blPc' = [blPc EXCEPT ![c] = "idle"]
    /\ blKind' = [blKind EXCEPT ![c] = "none"]
    /\ blOutcome' = [blOutcome EXCEPT ![c] = "none"]
    /\ blDebit' = [blDebit EXCEPT ![c] = 0]
    /\ blLedger' = [blLedger EXCEPT ![c] = <<>>]
    /\ blCached' = [blCached EXCEPT ![c] = FALSE]
    /\ blUpstream' = [blUpstream EXCEPT ![c] = 0]
    /\ blPersist' = [blPersist EXCEPT ![c] = FALSE]
    /\ blHistory' = [blHistory EXCEPT ![c] = 0]
    /\ UNCHANGED <<besidesBl, credits, blCalls, blBooks>>

BlNext ==
    \/ \E c \in BlCallers, kind \in BlKinds : BlFetchUser(c, kind)
    \/ \E c \in BlCallers, ok \in BOOLEAN : BlDeepPage(c, ok)
    \/ \E c \in BlCallers, ok \in BOOLEAN : BlSearch(c, ok)
    \/ \E c \in BlCallers, ok \in BOOLEAN : BlBillNew(c, ok)
    \/ \E c \in BlCallers, ok \in BOOLEAN : BlCacheWrite(c, ok)
    \/ \E c \in BlCallers, ok \in BOOLEAN : BlBillToken(c, ok)
    \/ \E c \in BlCallers : BlReturn(c)

SpecBilling == BlInit /\ [][BlNext]_vars

\* C10: whatever executeSearchCore calls run concurrently for the user, the
\* credit balance is never negative.
C10_NeverNegative == credits >= 0

\* C11: a call that has returned a result has taken exactly requiredCredits
\* off the balance and appended exactly one ledger entry, of -requiredCredits.
C11_ChargedOnce ==
    \A c \in BlCallers :
        blPc[c] = "done" /\ blOutcome[c] = "ok" =>
            /\ blDebit[c] = requiredCredits(blKind[c])
            /\ blLedger[c] = <<-requiredCredits(blKind[c])>>

\* C18: a call that has returned a result has written it under cacheKey.
C18_CachedBeforeReturn ==
    \A c \in BlCallers :
        blPc[c] = "done" /\ blOutcome[c] = "ok" => blCached[c]

\* C20: a call given a sentinel as page token asks the provider nothing and
\* takes no credit.
C20_SentinelTerminal ==
    \A c \in BlCallers :
        blKind[c] \in {"google_limit_reached", "plan_limit_reached"} =>
            blUpstream[c] = 0 /\ blDebit[c] = 0 /\ blLedger[c] = <<>>

\* ------------------------------------------------- searchPlacesAsync

\* the calls carry no page token
NoPageToken == ""

\* executeSearchCore:
\* const cacheKey = `search:${normalizedCity}:${normalizedKeyword}:${initialPageToken || 'p1'}`
CoreCacheKey(pageToken) ==
    <<"search", "city", "keyword", IF pageToken = NoPageToken THEN "p1" ELSE pageToken>>

\* the key depends on the deepSearch flag too
AsyncCacheKeyMutant(pageToken, userId, deepSearch) ==
    <<"search", "city", "keyword", IF deepSearch THEN "deep" ELSE "p1">>

\* searchPlacesAsync:
\* const cacheKey = `search:${normalizedCity}:${normalizedKeyword}:${initialPageToken || 'p1'}`
AsyncCacheKey(pageToken, userId, deepSearch) ==
    <<"search", "city", "keyword", IF pageToken = NoPageToken THEN "p1" ELSE pageToken>>

\* redis.get(key): asCache is what the worker's executeSearchCore stored under
\* its cacheKey
AsCachedUnder(key) == IF key = CoreCacheKey(NoPageToken) THEN asCache ELSE 0

\* the cache entry the call of c consults
AsCachedFor(req) == AsCachedUnder(AsyncCacheKey(NoPageToken, req.userId, req.deepSearch))

AsInit == PureStart /\ LockStart /\ AsStart /\ BlStart(0) /\ GwStart(GwCallers, 0) /\ RlStart(0)

\* the call moves on without having decided what it returns
AsGoto(c, pc) ==
    /\ asPc' = [asPc EXCEPT ![c] = pc]
    /\ UNCHANGED asRet

\* the return value (or error) is fixed; pc "release" is the finally block
AsReturn(c, pc, type, id) ==
    /\ asPc' = [asPc EXCEPT ![c] = pc]
    /\ asRet' = [asRet EXCEPT ![c] = [type |-> type, id |-> id, released |-> "no"]]

\* the calls are concurrent: each begins before any of them has returned.
\* const cachedResults = await redis.get(cacheKey);
\* if (cachedResults) return { type: "CACHED", ... }
AsCacheCheck(c, userId, deepSearch) ==
    /\ asPc[c] = "idle"
    /\ \A d \in AsCallers : asPc[d] # "done"
    /\ asReq' = [asReq EXCEPT ![c] = [userId |-> userId, deepSearch |-> deepSearch]]
    /\ IF AsCachedFor(asReq'[c]) # 0
         THEN AsReturn(c, "done", "CACHED", AsCachedFor(asReq'[c]))
         ELSE AsGoto(c, "acquire")
    /\ UNCHANGED <<besidesAs, asStore, asToken, asPolls>>

\* acquireLock(jobLockKey, 10000): the first attempt (pc "acquire") and the
\* one after the polling loop (pc "acquireAgain"), which throws the busy error
\* when it returns null too
AsAcquire(c) ==
    /\ asPc[c] \in {"acquire", "acquireAgain"}
    /\ asTokens' = asTokens + 1
    /\ IF SetNx(jobLock, asTokens')
         THEN /\ jobLock' = asTokens'
              /\ jobLockTtl' = JobLockTtlTicks
              /\ asToken' = [asToken EXCEPT ![c] = asTokens']
              /\ AsGoto(c, "recheckCache")
         ELSE /\ UNCHANGED <<jobLock, jobLockTtl, asToken>>
              /\ IF asPc[c] = "acquire"
                   THEN AsGoto(c, "poll")
                   ELSE AsReturn(c, "done", "BUSY", 0)
    /\ UNCHANGED <<besidesAs, asReq, asCache, asTracker, asTrackerTtl, asJobs, asRan, asPolls>>

\* one round of the loop: 300 ms later, redis.get(`active-job:${cacheKey}`)
AsPoll(c) ==
    /\ asPc[c] = "poll"
    /\ IF asTracker # 0
         THEN /\ AsReturn(c, "done", "JOB", asTracker)
              /\ asPolls' = [asPolls EXCEPT ![c] = 0]
         ELSE IF asPolls[c] + 1 < PollAttempts
         THEN /\ AsGoto(c, "poll")
              /\ asPolls' = [asPolls EXCEPT ![c] = asPolls[c] + 1]
         ELSE /\ AsGoto(c, "acquireAgain")
              /\ asPolls' = [asPolls EXCEPT ![c] = 0]
    /\ UNCHANGED <<besidesAs, asReq, asStore, asToken>>

\* under the lock: const secondCacheCheck = await redis.get(cacheKey)
AsRecheckCache(c) ==
    /\ asPc[c] = "recheckCache"
    /\ IF AsCachedFor(asReq[c]) # 0
         THEN AsReturn(c, "release", "CACHED", AsCachedFor(asReq[c]))
         ELSE AsGoto(c, "recheckTracker")
    /\ UNCHANGED <<besidesAs, asReq, asStore, asToken, asPolls>>

\* the tracker is looked for under the lock
AsTrackerFound(tracker) == tracker # 0

\* under the lock: const activeJobId = await redis.get(`active-job:${cacheKey}`)
AsRecheckTracker(c) ==
    /\ asPc[c] = "recheckTracker"
    /\ IF AsTrackerFound(asTracker)
         THEN AsReturn(c, "release", "JOB", asTracker)
         ELSE AsGoto(c, "enqueue")
    /\ UNCHANGED <<besidesAs, asReq, asStore, asToken, asPolls>>

\* the id addSearchJob returns for the job it puts on the queue
addSearchJob(jobs) == Cardinality(jobs) + 1

\* const jobId = await addSearchJob({...})
AsEnqueue(c) ==
    /\ asPc[c] = "enqueue"
    /\ asJobs' = asJobs \cup {addSearchJob(asJobs)}
    /\ AsReturn(c, "track", "JOB", addSearchJob(asJobs))
    /\ UNCHANGED <<besidesAs, asReq, asCache, jobLock, jobLockTtl, asTracker, asTrackerTtl, asRan,
                   asTokens, asToken, asPolls>>

\* await redis.set(`job:${jobId}:status`, "pending", "EX", 3600);
\* await redis.set(`active-job:${cacheKey}`, jobId || "pending", "EX", 60);
\* return { type: "JOB", jobId }
AsSetTracker(c) ==
    /\ asPc[c] = "track"
    /\ asTracker' = asRet[c].id
    /\ asTrackerTtl' = TrackerTtlTicks
    /\ AsGoto(c, "release")
    /\ UNCHANGED <<besidesAs, asReq, asCache, jobLock, jobLockTtl, asJobs, asRan, asTokens, asToken,
                   asPolls>>

\* a redis.get, addSearchJob or a redis.set inside the try block rejects: the
\* error leaves the block through finally
AsThrow(c) ==
    /\ asPc[c] \in {"recheckCache", "recheckTracker", "enqueue", "track"}
    /\ AsReturn(c, "release", "ERROR", 0)
    /\ UNCHANGED <<besidesAs, asReq, asStore, asToken, asPolls>>

\* the finally blocks skip the release
FinallyReleasesMutant(lockToken) == FALSE

\* finally { if (lockToken) ... }
FinallyReleases(lockToken) == lockToken # 0

\* finally { if (lockToken) await releaseLock(jobLockKey, lockToken) }
AsRelease(c) ==
    /\ asPc[c] = "release"
    /\ IF FinallyReleases(asToken[c])
         THEN \E evalThrows \in BOOLEAN :
                /\ jobLock' = IF evalThrows THEN jobLock
                                            ELSE RELEASE_LOCK_LUA(jobLock, asToken[c])
                /\ asRet' = [asRet EXCEPT ![c].released = ReleaseOutcome(evalThrows)]
         ELSE UNCHANGED <<jobLock, asRet>>
    /\ jobLockTtl' = IF jobLock' = Absent THEN 0 ELSE jobLockTtl
    /\ asPc' = [asPc EXCEPT ![c] = "done"]
    /\ asToken' = [asToken EXCEPT ![c] = 0]
    /\ UNCHANGED <<besidesAs, asReq, asCache, asTracker, asTrackerTtl, asJobs, asRan, asTokens, asPolls>>

\* the search worker runs a queued job to the end: executeSearchCore stores
\* the result under the cache key
AsWorker(job) ==
    /\ job \in asJobs \ asRan
    /\ asRan' = asRan \cup {job}
    /\ asCache' = job
    /\ UNCHANGED <<besidesAs, asReq, jobLock, jobLockTtl, asTracker, asTrackerTtl, asJobs, asTokens,
                   asPc, asToken, asPolls, asRet>>

\* one clock tick: the job lock's PX and the tracker's EX run down
AsTick ==
    /\ jobLockTtl > 0 \/ asTrackerTtl > 0
    /\ jobLockTtl' = IF jobLockTtl > 0 THEN jobLockTtl - 1 ELSE 0
    /\ jobLock' = IF jobLockTtl = 1 THEN Absent ELSE jobLock
    /\ asTrackerTtl' = IF asTrackerTtl > 0 THEN asTrackerTtl - 1 ELSE 0
    /\ asTracker' = IF asTrackerTtl = 1 THEN 0 ELSE asTracker
    /\ UNCHANGED <<besidesAs, asReq, asCache, asJobs, asRan, asTokens, asPc, asToken, asPolls, asRet>>

AsNext ==
    \/ \E c \in AsCallers, userId \in 1..NAsUsers, deepSearch \in BOOLEAN :
          AsCacheCheck(c, userId, deepSearch)
    \/ \E c \in AsCallers : AsAcquire(c)
    \/ \E c \in AsCallers : AsPoll(c)
    \/ \E c \in AsCallers : AsRecheckCache(c)
    \/ \E c \in AsCallers : AsRecheckTracker(c)
    \/ \E c \in AsCallers : AsEnqueue(c)
    \/ \E c \in AsCallers : AsSetTracker(c)
    \/ \E c \in AsCallers : AsThrow(c)
    \/ \E c \in AsCallers : AsRelease(c)
    \/ \E job \in 1..NAsCallers : AsWorker(job)
    \/ AsTick

SpecAsync == AsInit /\ [][AsNext]_vars

\* C1: of concurrent searchPlacesAsync calls for one uncached key, at most one
\* enqueues a job, and every call that has ended (other than by an error of
\* the store or the queue) returned CACHED with the first job's result or JOB
\* with the first job's id.
C1_OneJob == Cardinality(asJobs) <= 1

C1_OthersShare ==
    \A c \in AsCallers :
        asPc[c] = "done" /\ asRet[c].type # "ERROR" =>
            asRet[c].type \in {"CACHED", "JOB"} /\ asRet[c].id = 1

C1_SingleFlight == C1_OneJob /\ C1_OthersShare

\* ---------------------------------- executeSearchCore: standard search paging

\* every store at rest
StoreStart ==
    LockStart /\ AsStart /\ BlStart(0) /\ GwStart(GwCallers, 0) /\ RlStart(0) /\ EnStart /\ GsStart(0)

\* the plans' result caps, in steps of half a provider page
PlanCaps == {cap \in 1..MaxPlanCap : cap % 10 = 0}

\* the sizes a provider page can have
PageSizes == {n \in 0..ProviderPageSize : n % 10 = 0}

\* const MAX_FETCHES = Math.ceil(STANDARD_PAGE_SIZE / 20) + 1
MAX_FETCHES(cap) == (cap + ProviderPageSize - 1) \div ProviderPageSize + 1

\* limitedPlaces = allPlaces.slice(0, STANDARD_PAGE_SIZE): its length
SliceLen(len, size) == IF len < size THEN len ELSE size

\* the sentinel is given as soon as the cap is met
StandardNextTokenMutant(token, all, cap) ==
    IF ~token
      THEN IF all >= GoogleLimit THEN "google_limit_reached" ELSE "undefined"
      ELSE IF cap <= all THEN "plan_limit_reached" ELSE "raw"

\* if (!currentToken) nextToken = allPlaces.length >= 60 ? "google_limit_reached" : undefined
\* else nextToken = limitedPlaces.length < allPlaces.length ? "plan_limit_reached" : currentToken
StandardNextToken(token, all, cap) ==
    IF ~token
      THEN IF all >= GoogleLimit THEN "google_limit_reached" ELSE "undefined"
      ELSE IF SliceLen(all, cap) < all THEN "plan_limit_reached" ELSE "raw"

SsInit ==
    /\ StoreStart /\ DpStart(1, 1) /\ ScStart(1) /\ GdStart(UnitViewport, 2) /\ SpStart
    /\ \E cap \in PlanCaps : SsStart(cap)

\* one round of the loop: searchText answers with n places and, maybe, a token;
\* if (!currentToken) break
SsFetch(n, token) ==
    /\ ssPc = "loop"
    /\ ssFetches < MAX_FETCHES(ssCap) /\ ssAll < ssCap
    /\ ssFetches = 0 \/ ssToken
    /\ ssAll' = ssAll + n
    /\ ssToken' = token
    /\ ssFetches' = ssFetches + 1
    /\ UNCHANGED <<besidesSs, ssCap, ssPc, ssNext>>

\* the loop is over: by its condition or by the break
SsPolicy ==
    /\ ssPc = "loop"
    /\ \/ ~(ssFetches < MAX_FETCHES(ssCap) /\ ssAll < ssCap)
       \/ ssFetches > 0 /\ ~ssToken
    /\ ssNext' = StandardNextToken(ssToken, ssAll, ssCap)
    /\ ssPc' = "done"
    /\ UNCHANGED <<besidesSs, ssCap, ssAll, ssFetches, ssToken>>

SsNext ==
    \/ \E n \in PageSizes, token \in BOOLEAN : SsFetch(n, token)
    \/ SsPolicy

SpecStandard == SsInit /\ [][SsNext]_vars

\* C12 as stated: the nextPageToken of a new standard search: no provider
\* token and fewer than 60 results: undefined; no token and 60 or more:
\* "google_limit_reached"; a token and the plan's cap reached (the count equal to
\* the cap included): "plan_limit_reached"; otherwise the provider's token.
C12_TokenPolicy ==
    ssPc = "done" =>
        ssNext = IF ~ssToken /\ ssAll < GoogleLimit THEN "undefined"
                 ELSE IF ~ssToken THEN "google_limit_reached"
                 ELSE IF ssAll >= ssCap THEN "plan_limit_reached"
                 ELSE "raw"

\* C12: the nextPageToken of a new standard search: no provider token and
\* fewer than 60 results: undefined; no token and 60 or more:
\* "google_limit_reached"; a token and more results accumulated than the plan's
\* cap: "plan_limit_reached"; a token and no more results than the cap (the
\* count equal to the cap included): the provider's token.
C12_TokenPolicyAmended ==
    ssPc = "done" =>
        ssNext = IF ~ssToken /\ ssAll < GoogleLimit THEN "undefined"
                 ELSE IF ~ssToken THEN "google_limit_reached"
                 ELSE IF ssAll > ssCap THEN "plan_limit_reached"
                 ELSE "raw"

\* the loop ended with a provider token and exactly as many results as the
\* plan allows: the provider's token is handed out
C12_Witness ==
    ssPc = "done" /\ ssToken /\ ssAll = ssCap /\ ssNext = "raw"

\* ------------------------------------------- executeSearchCore: deep search

PlaceIds == 1..NPlaceIds

\* what a grid scan (or one provider page) can return
ScanResults == UNION {[1..n -> PlaceIds] : n \in 0..MaxScan}

Range(seq) == {seq[i] : i \in DOMAIN seq}

Least(a, b) == IF a < b THEN a ELSE b

\* Array.prototype.slice(from, to) for 0 <= from
Slice(seq, from, to) == SubSeq(seq, from + 1, Least(to, Len(seq)))

\* every result of the scan is kept
DedupMutant(seq) == seq

\* gridResults.filter(p => { if (seen.has(p.place_id)) return false; ... })
RECURSIVE Dedup(_)
Dedup(seq) ==
    IF seq = <<>> THEN <<>>
    ELSE LET front == Dedup(SubSeq(seq, 1, Len(seq) - 1))
             last == seq[Len(seq)]
         IN  IF last \in Range(front) THEN front ELSE Append(front, last)

\* no cap by credits
maxPagesByCreditsMutant(maxPages, balance) == maxPages + balance

\* const remainingCredits = Math.max(0, user.credits - requiredCredits);
\* const maxPagesByCredits = Math.min(MAX_DEEP_PAGES, Math.max(1, 1 + remainingCredits))
maxPagesByCredits(maxPages, balance) ==
    LET remainingCredits == IF balance - requiredCredits("deepNew") > 0
                              THEN balance - requiredCredits("deepNew") ELSE 0
        byCredits == IF 1 + remainingCredits > 1 THEN 1 + remainingCredits ELSE 1
    IN  Least(maxPages, byCredits)

\* prisma.place.upsert for each place of the batch: the table afterwards
Upserted(db, places) == Dedup(db \o places)

\* prisma.place.findMany({ where: { googleId: { in: sliceIds } } }): the
\* matching rows, in table order
findMany(db, sliceIds) ==
    LET Wanted(id) == id \in Range(sliceIds) IN SelectSeq(db, Wanted)

\* the continuation takes the page out of the stored list
DeepListAfterPageMutant(list, from, to) ==
    Slice(list, 0, from) \o Slice(list, to, Len(list))

\* branch A reads the two list keys and writes neither
DeepListAfterPage(list, from, to) == list

\* nextToken = `deep:${n}` if more than n entries are stored, else undefined (0)
DeepNext(n, len) == IF n < len THEN n ELSE 0

\* the call repeats the one before it: the same deep:<startIndex> token, and
\* nothing happened to the cache in between
DeepAgain(startIndex) == dpLast.op = "page" /\ dpLast.token = startIndex

DpInit ==
    /\ StoreStart /\ SsStart(ProviderPageSize) /\ ScStart(1) /\ GdStart(UnitViewport, 2) /\ SpStart
    /\ \E pageSize \in 1..MaxDeepPageSize, maxPages \in 1..MaxDeepPages :
          DpStart(pageSize, maxPages)

\* branch B with deepSearch: the city's viewport is looked up; with a viewport
\* the grid is scanned and the result deduplicated, without one a single
\* provider page is fetched, persisted and published; the list is capped by
\* credits and stored under both list keys; the first page is returned
DeepInitiation(raw, viewport, balance) ==
    /\ viewport \/ (Len(raw) <= DeepProviderPage /\ raw = Dedup(raw))
    /\ LET found == IF viewport THEN Dedup(raw) ELSE raw
           fallbackBatch == IF viewport THEN <<>> ELSE found
           maxResultsByCredits == maxPagesByCredits(dpMaxPages, balance) * dpPageSize
           allPlaces == IF Len(found) > maxResultsByCredits
                          THEN Slice(found, 0, maxResultsByCredits) ELSE found
           limitedPlaces == Slice(allPlaces, 0, dpPageSize)
           enrichedPlaces == IF Len(fallbackBatch) = 0 THEN limitedPlaces ELSE fallbackBatch
       IN  /\ dpHasIds' = TRUE /\ dpIds' = allPlaces
           /\ dpHasSlim' = TRUE /\ dpSlim' = allPlaces
           /\ dpDb' = Upserted(dpDb, enrichedPlaces)
           /\ dpLast' = [op |-> "init", token |-> 0, again |-> FALSE, balance |-> balance,
                         viewport |-> viewport, scanned |-> Len(found), raw |-> raw,
                         ok |-> TRUE,
                         places |-> enrichedPlaces,
                         next |-> DeepNext(dpPageSize, Len(allPlaces)),
                         published |-> Range(enrichedPlaces)]
           /\ dpChain' = [live |-> TRUE, pages |-> 1, got |-> enrichedPlaces,
                          next |-> DeepNext(dpPageSize, Len(allPlaces))]
    /\ UNCHANGED <<besidesDp, dpPageSize, dpMaxPages>>

\* branch A, from the slim list: the page is sliced, persisted and published
DeepPageFromSlim(startIndex) ==
    /\ dpHasSlim
    /\ LET limitedPlaces == Slice(dpSlim, startIndex, startIndex + dpPageSize)
       IN  /\ dpDb' = Upserted(dpDb, limitedPlaces)
           /\ dpLast' = [op |-> "page", token |-> startIndex,
                         again |-> DeepAgain(startIndex), balance |-> 0,
                         viewport |-> FALSE, scanned |-> 0, raw |-> <<>>, ok |-> TRUE,
                         places |-> limitedPlaces,
                         next |-> DeepNext(startIndex + dpPageSize, Len(dpSlim)),
                         published |-> Range(limitedPlaces)]
           /\ dpChain' = IF dpChain.live /\ dpChain.next # 0 /\ startIndex = dpChain.next
                           THEN [live |-> TRUE, pages |-> dpChain.pages + 1,
                                 got |-> dpChain.got \o limitedPlaces,
                                 next |-> DeepNext(startIndex + dpPageSize, Len(dpSlim))]
                           ELSE dpChain
    /\ dpSlim' = DeepListAfterPage(dpSlim, startIndex, startIndex + dpPageSize)
    /\ UNCHANGED <<besidesDp, dpPageSize, dpMaxPages, dpHasIds, dpIds, dpHasSlim>>

\* branch A, the slim list missing: the ids are sliced and the rows read from
\* the Record Store ("already enriched from DB"); without the id list too the
\* call throws "Arama süresi dolmuş"
DeepPageFromIds(startIndex) ==
    /\ ~dpHasSlim
    /\ IF ~dpHasIds
         THEN dpLast' = [NoDeepOp EXCEPT !.op = "page", !.token = startIndex,
                                         !.again = DeepAgain(startIndex)]
         ELSE LET sliceIds == Slice(dpIds, startIndex, startIndex + dpPageSize)
              IN  dpLast' = [op |-> "page", token |-> startIndex,
                             again |-> DeepAgain(startIndex), balance |-> 0,
                             viewport |-> FALSE, scanned |-> 0, raw |-> <<>>, ok |-> TRUE,
                             places |-> findMany(dpDb, sliceIds),
                             next |-> DeepNext(startIndex + dpPageSize, Len(dpIds)),
                             published |-> {}]
    /\ dpIds' = DeepListAfterPage(dpIds, startIndex, startIndex + dpPageSize)
    /\ UNCHANGED <<besidesDp, dpPageSize, dpMaxPages, dpHasIds, dpHasSlim, dpSlim, dpDb, dpChain>>

\* the cache drops one of the list keys (expiry or eviction)
DeepEvict(slim) ==
    /\ IF slim THEN dpHasSlim ELSE dpHasIds
    /\ IF slim
         THEN dpHasSlim' = FALSE /\ dpSlim' = <<>> /\ UNCHANGED <<dpHasIds, dpIds>>
         ELSE dpHasIds' = FALSE /\ dpIds' = <<>> /\ UNCHANGED <<dpHasSlim, dpSlim>>
    /\ dpLast' = [NoDeepOp EXCEPT !.op = "evict"]
    /\ dpChain' = NoChain
    /\ UNCHANGED <<besidesDp, dpPageSize, dpMaxPages, dpDb>>

DpNext ==
    \/ \E raw \in ScanResults, viewport \in BOOLEAN, balance \in 10..MaxDeepBalance :
          DeepInitiation(raw, viewport, balance)
    \/ \E startIndex \in 0..MaxScan : DeepPageFromSlim(startIndex)
    \/ \E startIndex \in 0..MaxScan : DeepPageFromIds(startIndex)
    \/ \E slim \in BOOLEAN : DeepEvict(slim)

SpecDeep == DpInit /\ [][DpNext]_vars

\* ------------------------------------------------------------- scanCity

Sectors == 1..NSectors

\* the places of one provider page, for the scan: none or one
ScanPages == {<<>>} \cup {<<id>> : id \in PlaceIds}

\* the sector keeps what it gathered before the failure
SectorCaughtMutant(allGridPlaces) == allGridPlaces

\* catch (e) { console.error(...); return []; }
SectorCaught(allGridPlaces) == <<>>

\* results.flat()
RECURSIVE Flat(_)
Flat(results) ==
    IF results = <<>> THEN <<>> ELSE results[1] \o Flat(SubSeq(results, 2, Len(results)))

\* const MAX_PAGES_PER_GRID = options.maxPagesPerGrid || 3
DefaultMaxPages == 3

MaxPagesOf(option) == IF option = 0 THEN DefaultMaxPages ELSE option

ScInit ==
    /\ StoreStart /\ SsStart(ProviderPageSize) /\ DpStart(1, 1) /\ GdStart(UnitViewport, 2) /\ SpStart
    /\ \E option \in 0..MaxPagesPerGrid : ScStart(MaxPagesOf(option))

\* the loop goes round once more than MAX_PAGES_PER_GRID allows
SectorGoesOnMutant(nextPageToken, pageCount, maxPages) ==
    nextPageToken # 0 /\ pageCount <= maxPages

\* while (nextPageToken && pageCount < MAX_PAGES_PER_GRID)
SectorGoesOn(nextPageToken, pageCount, maxPages) ==
    nextPageToken # 0 /\ pageCount < maxPages

\* the body of a sector's do-while begins: (after the pause between pages)
\* this.searchText(query, { locationBias, pageToken: nextPageToken }) is called
SectorRequest(p) ==
    /\ scPc[p] = "run"
    /\ scReq[p] = NoReq
    /\ scReq' = [scReq EXCEPT ![p] = scTok[p]]
    /\ UNCHANGED <<besidesSc, scMaxPages, scPc, scGot, scPages, scTok, scRes, scOut>>

\* searchText answers: the places are kept, nextPageToken and pageCount are
\* updated, and the loop goes on or the sector returns allGridPlaces
SectorPage(p, places, token) ==
    /\ scPc[p] = "run"
    /\ scReq[p] # NoReq
    /\ scReq' = [scReq EXCEPT ![p] = NoReq]
    /\ scGot' = [scGot EXCEPT ![p] = scGot[p] \o places]
    /\ scTok' = [scTok EXCEPT ![p] = token]
    /\ scPages' = [scPages EXCEPT ![p] = scPages[p] + 1]
    /\ IF SectorGoesOn(token, scPages'[p], scMaxPages)
         THEN UNCHANGED <<scPc, scRes>>
         ELSE /\ scPc' = [scPc EXCEPT ![p] = "returned"]
              /\ scRes' = [scRes EXCEPT ![p] = scGot'[p]]
    /\ UNCHANGED <<besidesSc, scMaxPages, scOut>>

\* searchText throws (breaker open, no capacity, upstream error): the catch
\* block of the sector's callback runs
SectorThrow(p) ==
    /\ scPc[p] = "run"
    /\ scReq[p] # NoReq
    /\ scReq' = [scReq EXCEPT ![p] = NoReq]
    /\ scPc' = [scPc EXCEPT ![p] = "caught"]
    /\ scRes' = [scRes EXCEPT ![p] = SectorCaught(scGot[p])]
    /\ UNCHANGED <<besidesSc, scMaxPages, scGot, scPages, scTok, scOut>>

\* every callback has resolved: Promise.all resolves and scanCity returns
\* results.flat()
ScanReturn ==
    /\ scOut.state = "pending"
    /\ \A p \in Sectors : scPc[p] # "run"
    /\ scOut' = [state |-> "resolved", value |-> Flat([p \in Sectors |-> scRes[p]])]
    /\ UNCHANGED <<besidesSc, scMaxPages, scPc, scGot, scPages, scTok, scReq, scRes>>

ScNext ==
    \/ \E p \in Sectors : SectorRequest(p)
    \/ \E p \in Sectors, places \in ScanPages, token \in 0..NScanTokens :
          SectorPage(p, places, token)
    \/ \E p \in Sectors : SectorThrow(p)
    \/ ScanReturn

\* time passes and every searchText call ends
SpecScanFair == ScInit /\ [][ScNext]_vars /\ WF_vars(ScNext)

\* ------------------------------------------- GridGenerator.generateGrid
\* Coordinates are exact fractions: a point holds the numerators of its
\* latitude and longitude over the denominator den. The radius needs a
\* cosine and a square root and is left out.
Coords == (0 - MaxCoord)..MaxCoord
LatLngs == [lat : Coords, lng : Coords]
Viewports == [southwest : LatLngs, northeast : LatLngs]
\* gridSize values -0.5, 0, 0.5, 1, ... in halves
GridHalves == (0 - 1)..MaxGridHalves

\* Math.floor of a number given in halves
Floor(halves) == halves \div 2

\* Math.max(1, Math.min(20, Math.floor(gridSize)))
GridSide(halves) ==
    LET floor == Floor(halves)
        capped == IF floor < MaxGridSize THEN floor ELSE MaxGridSize
    IN  IF capped > 1 THEN capped ELSE 1

\* the same without the half-cell offset
CellCenterMutant(base, index, span, size) ==
    [num |-> 2 * size * base + 2 * index * span, den |-> 2 * size]

\* base + (index * cellSize) + (cellSize / 2) with cellSize = span / size
CellCenter(base, index, span, size) ==
    [num |-> 2 * size * base + 2 * index * span + span, den |-> 2 * size]

generateGrid(viewport, halves) ==
    LET size == GridSide(halves)
        latSpan == viewport.northeast.lat - viewport.southwest.lat
        lngSpan == viewport.northeast.lng - viewport.southwest.lng
    IN  [k \in 1..(size * size) |->
            LET row == (k - 1) \div size
                col == (k - 1) % size
                centerLat == CellCenter(viewport.southwest.lat, row, latSpan, size)
                centerLng == CellCenter(viewport.southwest.lng, col, lngSpan, size)
            IN  [lat |-> centerLat.num, lng |-> centerLng.num, den |-> centerLat.den]]

GdInit ==
    /\ StoreStart /\ SsStart(ProviderPageSize) /\ DpStart(1, 1) /\ ScStart(1) /\ SpStart
    /\ \E viewport \in Viewports, halves \in GridHalves : GdStart(viewport, halves)

GdCall ==
    /\ gdPc = "call"
    /\ gdPoints' = generateGrid(gdViewport, gdHalves)
    /\ gdPc' = "done"
    /\ UNCHANGED <<besidesGd, gdViewport, gdHalves>>

GdNext == GdCall

SpecGrid == GdInit /\ [][GdNext]_vars

\* C13: after a deep-search initiation the cached id list holds at most
\* min(MAX_DEEP_PAGES, 1 + remainingCredits) * DEEP_PAGE_SIZE ids, with
\* remainingCredits = max(0, balance - 10).
C13_ListCapped ==
    dpLast.op = "init" =>
        /\ dpHasIds
        /\ Len(dpIds) <=
              Least(dpMaxPages, 1 + (IF dpLast.balance > 10 THEN dpLast.balance - 10 ELSE 0))
                * dpPageSize

\* the scan found more places than the user can page through, and the list
\* was cut to the cap
C13_Witness ==
    /\ dpLast.op = "init" /\ dpLast.viewport
    /\ dpLast.scanned > Len(dpIds)
    /\ Len(dpIds) = (1 + dpLast.balance - 10) * dpPageSize
    /\ dpLast.balance > 10

\* C14: a deep-search initiation returns the first DEEP_PAGE_SIZE entries of
\* the cached list, hence at most DEEP_PAGE_SIZE places, and nextPageToken is
\* deep:<DEEP_PAGE_SIZE> exactly when the list holds more entries than that.
C14_FirstPage ==
    dpLast.op = "init" =>
        /\ Len(dpLast.places) <= dpPageSize
        /\ dpLast.places = Slice(dpIds, 0, dpPageSize)
        /\ dpLast.next = (IF Len(dpIds) > dpPageSize THEN dpPageSize ELSE 0)

\* C15: a deep continuation called again with the same token, the cache not
\* having changed in between, returns the same place ids and the same
\* nextPageToken as before.
C15_Step ==
    dpLast'.op = "page" /\ dpLast'.again =>
        /\ dpLast'.ok = dpLast.ok
        /\ dpLast'.places = dpLast.places
        /\ dpLast'.next = dpLast.next

C19_PersistedAndPublished ==
    dpLast.ok =>
        \A id \in Range(dpLast.places) :
            id \in Range(dpDb) /\ id \in dpLast.published

\* C16: scanCity does not reject when searchText fails in a sector: once all
\* sectors have ended it resolves, a sector that failed contributes nothing, and
\* the output holds, in grid order, every place returned to the other sectors.
C16_Settled ==
    /\ scOut.state \in {"pending", "resolved"}
    /\ scOut.state = "resolved" =>
          scOut.value = Flat([p \in Sectors |->
                                 IF scPc[p] = "caught" THEN <<>> ELSE scGot[p]])

C16_PartialFailure ==
    /\ []C16_Settled
    /\ ((\A p \in Sectors : scPc[p] # "run") ~> scOut.state = "resolved")

\* a sector failed after it had been given places, another did not fail, and
\* the scan resolved with the other's places
C16_Witness ==
    /\ scOut.state = "resolved" /\ scOut.value # <<>>
    /\ \E p \in Sectors : scPc[p] = "caught" /\ scGot[p] # <<>>

\* the n of C17: floor(gridSize) held between 1 and 20
C17_N ==
    IF gdHalves < 2 THEN 1
    ELSE IF gdHalves >= 2 * MaxGridSize THEN MaxGridSize
    ELSE CHOOSE n \in 1..MaxGridSize : 2 * n <= gdHalves /\ gdHalves < 2 * (n + 1)

\* numerator over C17_N of the k-th cell edge between the coordinates from and to
C17_Edge(from, to, k) == C17_N * from + k * (to - from)

\* C17: generateGrid(viewport, gridSize) returns exactly n * n points with
\* n = floor(gridSize) held between 1 and 20; the points are ordered row by
\* row starting at the southwest cell, and the point at (row, col) lies midway
\* between the south and north edges of row row and midway between the west
\* and east edges of column col of the viewport split into n equal rows and n
\* equal columns.
C17_GridCenters ==
    gdPc = "done" =>
        /\ Len(gdPoints) = C17_N * C17_N
        /\ \A row, col \in 0..(C17_N - 1) :
              LET point == gdPoints[row * C17_N + col + 1]
                  sw == gdViewport.southwest
                  ne == gdViewport.northeast
              IN  /\ point.den > 0
                  /\ 2 * C17_N * point.lat =
                        point.den * (C17_Edge(sw.lat, ne.lat, row) + C17_Edge(sw.lat, ne.lat, row + 1))
                  /\ 2 * C17_N * point.lng =
                        point.den * (C17_Edge(sw.lng, ne.lng, col) + C17_Edge(sw.lng, ne.lng, col + 1))

\* a fractional gridSize of 2.5 gave a 2 x 2 grid over a viewport with area
C17_Witness ==
    /\ gdPc = "done"
    /\ gdHalves = 5
    /\ Len(gdPoints) = 4
    /\ gdViewport.northeast.lat > gdViewport.southwest.lat
    /\ gdViewport.northeast.lng > gdViewport.southwest.lng

\* ------------------------------------------------------------ searchPlaces
\* Calls without page token for one (normalized) city and keyword.
\* executeSearchCore is one step here: it ends with a result, which it has
\* written under its own cache key, or with an error.

SpCallers == 1..NSpCallers

\* searchPlaces: const cacheKey = `search:${normalizedCity}:${normalizedKeyword}`
\* (the variant with the suffix executeSearchCore appends)
SearchPlacesKeyMutant == <<"search", "city", "keyword", "p1">>
SearchPlacesKey == <<"search", "city", "keyword">>

\* the writers of the values stored under key
SpCached(key) == {e[2] : e \in {x \in spCache : x[1] = key}}

SpInit ==
    /\ StoreStart /\ SsStart(ProviderPageSize) /\ DpStart(1, 1) /\ ScStart(1)
    /\ GdStart(UnitViewport, 2) /\ SpStart

SpGoto(c, pc) ==
    /\ spPc' = [spPc EXCEPT ![c] = pc]
    /\ UNCHANGED spRet

\* the return value (or error) is fixed; pc "release" is the finally block
SpReturn(c, pc, type, from) ==
    /\ spPc' = [spPc EXCEPT ![c] = pc]
    /\ spRet' = [spRet EXCEPT ![c] = [type |-> type, from |-> from, released |-> "no"]]

\* const cachedResults = await redis.get(cacheKey); if (cachedResults) return ...
\* const dbCache = await prisma.searchCache.findUnique({ where: { queryKey: cacheKey } })
SpCacheCheck(c) ==
    /\ spPc[c] = "idle"
    /\ IF SpCached(SearchPlacesKey) # {}
         THEN \E w \in SpCached(SearchPlacesKey) : SpReturn(c, "done", "CACHED", w)
         ELSE SpGoto(c, "acquire")
    /\ UNCHANGED <<besidesSp, spCache, spLock, spLockTtl, spTokens, spToken, spPolls>>

\* lockToken = await acquireLock(lockKey, LOCK_TTL_MS): the first attempt
\* (pc "acquire") and the one after waitForValue (pc "acquireAgain"), which
\* throws the busy error when it returns null too
SpAcquire(c) ==
    /\ spPc[c] \in {"acquire", "acquireAgain"}
    /\ spTokens' = spTokens + 1
    /\ IF SetNx(spLock, spTokens')
         THEN /\ spLock' = spTokens'
              /\ spLockTtl' = SpLockTtlTicks
              /\ spToken' = [spToken EXCEPT ![c] = spTokens']
              /\ SpGoto(c, "core")
         ELSE /\ UNCHANGED <<spLock, spLockTtl, spToken>>
              /\ IF spPc[c] = "acquire"
                   THEN SpGoto(c, "wait")
                   ELSE SpReturn(c, "release", "BUSY", 0)
    /\ UNCHANGED <<besidesSp, spCache, spPolls>>

\* waitForValue(cacheKey, WAIT_FOR_CACHE_MS, WAIT_POLL_MS): one round of
\* while (Date.now() < deadline) { value = await redis.get(key); ... sleep }
SpWait(c) ==
    /\ spPc[c] = "wait"
    /\ IF SpCached(SearchPlacesKey) # {}
         THEN /\ \E w \in SpCached(SearchPlacesKey) : SpReturn(c, "release", "CACHED", w)
              /\ spPolls' = [spPolls EXCEPT ![c] = 0]
         ELSE IF spPolls[c] + 1 < MaxWaitPolls
         THEN /\ SpGoto(c, "wait")
              /\ spPolls' = [spPolls EXCEPT ![c] = spPolls[c] + 1]
         ELSE /\ SpGoto(c, "acquireAgain")
              /\ spPolls' = [spPolls EXCEPT ![c] = 0]
    /\ UNCHANGED <<besidesSp, spCache, spLock, spLockTtl, spTokens, spToken>>

\* return await executeSearchCore(city, keyword, userId, initialPageToken, deepSearch):
\* it writes its result under its cacheKey and returns it, or throws
SpCore(c, ok) ==
    /\ spPc[c] = "core"
    /\ IF ok
         THEN /\ spCache' = spCache \cup {<<CoreCacheKey(NoPageToken), c>>}
              /\ SpReturn(c, "release", "RESULT", c)
         ELSE /\ UNCHANGED spCache
              /\ SpReturn(c, "release", "ERROR", 0)
    /\ UNCHANGED <<besidesSp, spLock, spLockTtl, spTokens, spToken, spPolls>>

\* finally { if (lockToken) await releaseLock(lockKey, lockToken) }
SpRelease(c) ==
    /\ spPc[c] = "release"
    /\ IF FinallyReleases(spToken[c])
         THEN \E evalThrows \in BOOLEAN :
                /\ spLock' = IF evalThrows THEN spLock
                                           ELSE RELEASE_LOCK_LUA(spLock, spToken[c])
                /\ spRet' = [spRet EXCEPT ![c].released = ReleaseOutcome(evalThrows)]
         ELSE UNCHANGED <<spLock, spRet>>
    /\ spLockTtl' = IF spLock' = Absent THEN 0 ELSE spLockTtl
    /\ spPc' = [spPc EXCEPT ![c] = "done"]
    /\ spToken' = [spToken EXCEPT ![c] = 0]
    /\ UNCHANGED <<besidesSp, spCache, spTokens, spPolls>>

\* one clock tick: the lock's PX runs down
SpTick ==
    /\ spLockTtl > 0
    /\ spLockTtl' = spLockTtl - 1
    /\ spLock' = IF spLockTtl = 1 THEN Absent ELSE spLock
    /\ UNCHANGED <<besidesSp, spCache, spTokens, spPc, spToken, spPolls, spRet>>

SpNext ==
    \/ \E c \in SpCallers : SpCacheCheck(c)
    \/ \E c \in SpCallers : SpAcquire(c)
    \/ \E c \in SpCallers : SpWait(c)
    \/ \E c \in SpCallers, ok \in BOOLEAN : SpCore(c, ok)
    \/ \E c \in SpCallers : SpRelease(c)
    \/ SpTick

SpecSync == SpInit /\ [][SpNext]_vars

\* one key is searched through searchPlacesAsync or through searchPlaces
LockedNext ==
    \/ AsNext /\ SpStart
    \/ SpNext /\ AsStart

SpecLocked == AsInit /\ [][LockedNext]_vars

\* ---------------------------- persistAndPublish and the enrichment worker

EnInit ==
    /\ PureStart /\ LockStart /\ AsStart /\ BlStart(0) /\ GwStart(GwCallers, 0) /\ RlStart(0)

\* scrapeStatus of a row that prisma.place.upsert creates
CreatedStatus == "PENDING"

\* prisma.place.upsert({ where: { googleId }, update: {...}, create: {...} }):
\* neither branch names scrapeStatus or emails; savedPlace is the row
EnUpsert(s, p) ==
    /\ enSaved[s] = NoSaved
    /\ enJobs + Cardinality({t \in 1..NEnSearches : enSaved[t] # NoSaved}) < MaxEnJobs
    /\ enStatus' = [enStatus EXCEPT ![p] = IF @ = "none" THEN CreatedStatus ELSE @]
    /\ enSaved' = [enSaved EXCEPT ![s] =
                      [place |-> p, scrapeStatus |-> enStatus'[p], emails |-> enEmails[p]]]
    /\ UNCHANGED <<besidesEn, enEmails, enQueue, enJobs, enWork>>

\* if ((!savedPlace.emails || savedPlace.emails.length === 0) &&
\*     savedPlace.scrapeStatus === 'PENDING') await addEnrichmentJob({...})
TriggersScrape(savedPlace) == ~savedPlace.emails /\ savedPlace.scrapeStatus = "PENDING"

\* the lead is upserted and the scraping job triggered for savedPlace
EnTrigger(s) ==
    /\ enSaved[s] # NoSaved
    /\ IF TriggersScrape(enSaved[s])
         THEN /\ enQueue' = [enQueue EXCEPT ![enSaved[s].place] = @ + 1]
              /\ enJobs' = enJobs + 1
         ELSE UNCHANGED <<enQueue, enJobs>>
    /\ enSaved' = [enSaved EXCEPT ![s] = NoSaved]
    /\ UNCHANGED <<besidesEn, enStatus, enEmails, enWork>>

\* the worker takes a job: prisma.place.update({ data: { scrapeStatus: 'PROCESSING' } })
EnTake(w, p) ==
    /\ enWork[w] = NoWork
    /\ enQueue[p] > 0
    /\ enQueue' = [enQueue EXCEPT ![p] = @ - 1]
    /\ enStatus' = [enStatus EXCEPT ![p] = "PROCESSING"]
    /\ enWork' = [enWork EXCEPT ![w] = [pc |-> "scrape", place |-> p]]
    /\ UNCHANGED <<besidesEn, enEmails, enJobs, enSaved>>

\* the lookup and the scrape: without a website the place is COMPLETED and
\* the job returns; a throw is caught and the place FAILED; otherwise the data
\* is saved with scrapeStatus COMPLETED and the update is to be published
EnScrape(w, outcome, found) ==
    /\ enWork[w].pc = "scrape"
    /\ LET p == enWork[w].place
       IN  /\ enStatus' = [enStatus EXCEPT ![p] = IF outcome = "throws" THEN "FAILED"
                                                    ELSE "COMPLETED"]
           /\ enEmails' = [enEmails EXCEPT ![p] = IF outcome = "saved" THEN @ \/ found ELSE @]
           /\ enWork' = [enWork EXCEPT ![w] =
                            IF outcome = "saved" THEN [pc |-> "publish", place |-> p]
                            ELSE NoWork]
    /\ UNCHANGED <<besidesEn, enQueue, enJobs, enSaved>>

\* redis.publish(`search:updates:${job.data.jobId}`, ...) inside the try block:
\* when it throws, the catch block sets scrapeStatus FAILED
EnPublish(w, ok) ==
    /\ enWork[w].pc = "publish"
    /\ enStatus' = [enStatus EXCEPT ![enWork[w].place] = IF ok THEN @ ELSE "FAILED"]
    /\ enWork' = [enWork EXCEPT ![w] = NoWork]
    /\ UNCHANGED <<besidesEn, enEmails, enQueue, enJobs, enSaved>>

EnNext ==
    \/ \E s \in 1..NEnSearches, p \in 1..NEnPlaces : EnUpsert(s, p)
    \/ \E s \in 1..NEnSearches : EnTrigger(s)
    \/ \E w \in 1..NEnWorkers, p \in 1..NEnPlaces : EnTake(w, p)
    \/ \E w \in 1..NEnWorkers, outcome \in {"noSite", "saved", "throws"}, found \in BOOLEAN :
          EnScrape(w, outcome, found)
    \/ \E w \in 1..NEnWorkers, ok \in BOOLEAN : EnPublish(w, ok)

SpecEnrich == EnInit /\ [][EnNext]_vars

\* a withCircuitBreaker call whose work succeeds leaves the state key, its
\* expiry and the failure counter as they were
C22_SuccessStep ==
    \A c \in CbCallers :
        gwPc[c] = "work" /\ gwPc'[c] = "done" /\ gwOutcome'[c] = "ok" =>
            UNCHANGED <<cbState, cbTtl, cbFailures>>

C22_SuccessFrame == [][C22_SuccessStep]_vars

\* C22: successes leave the breaker's keys alone, so failures add up across
\* them: whenever failureThreshold failures have been counted since the state
\* key was last written OPEN, consecutive or not, the call that counted the
\* last of them is about to write the state key OPEN.
C22_FailuresAccumulate ==
    cbSince >= FailureThreshold => \E c \in CbCallers : gwPc[c] = "cbOpen"

\* C23: the failure counter is reset when the breaker opens, so when the state
\* key expires and the breaker closes (every call that wrote it OPEN having
\* finished its reset) the counter is zero, also when calls that passed the
\* OPEN check earlier failed while the breaker was open.
C23_CloseStep ==
    /\ cbState = "OPEN" /\ cbState' = "CLOSED"
    /\ \A c \in CbCallers : gwPc[c] \notin {"cbOpen", "cbDel"}
    => cbFailures' = 0

C23_ZeroAtClose == [][C23_CloseStep]_vars

\* C24: with a limit > 0, of any set of rateLimitSlidingWindow calls on the key
\* that all fall within one window (each answered less than one window after
\* each of them was made), overlapping or not, at most limit were allowed.
C24_AtMostLimit ==
    rlLimit > 0 =>
        \A S \in SUBSET DOMAIN rlLog :
            (\A i, k \in S : rlLog[k].done - rlLog[i].now < WindowTicks)
                => Cardinality({k \in S : rlLog[k].allowed}) <= rlLimit

\* limit + 1 calls were made at the same instant and were all pending before
\* Redis ran the first of them; the last one run was refused
C24_Witness ==
    /\ rlLimit > 0
    /\ Len(rlLog) = rlLimit + 1
    /\ \A i, k \in DOMAIN rlLog : rlLog[i].now = rlLog[k].now /\ rlLog[i].now < rlLog[k].done
    /\ \A k \in 1..rlLimit : rlLog[k].allowed
    /\ ~rlLog[rlLimit + 1].allowed

\* C25: a searchText call about to issue a retry, whether its last request was
\* aborted by the timeout or answered with a retryable status, has slept
\* min(1000 * 2^attempt, 4000) ms since that request: 1000 ms before the second
\* attempt, 2000 ms before the third.
C25_BackoffBeforeRetry ==
    \A c \in GwCallers :
        gwPc[c] = "loop" /\ attempt[c] > 0 =>
            /\ gwWaited[c] = Backoff(attempt[c] - 1)
            /\ gwWaited[c] = 1000 * attempt[c]

\* C26: with a pool of n >= 2 keys, each getNextApiKey call returns the key at
\* the rotator's index, which lies in 0..n-1, and moves the index on by one,
\* wrapping to 0 after n-1; and every retry of a searchText call uses a key
\* other than the one of that call's previous attempt, whatever other calls
\* do on the shared rotator in between.
C26_IssueStep ==
    \A c \in GwCallers :
        apiKeys >= 2 /\ gwPc[c] = "loop" /\ gwPc'[c] = "resp" =>
            /\ currentKeyIndex \in 0..(apiKeys - 1)
            /\ gwKey'[c] = currentKeyIndex
            /\ currentKeyIndex' = IF currentKeyIndex = apiKeys - 1 THEN 0 ELSE currentKeyIndex + 1
            /\ attempt[c] > 0 => gwKey'[c] # gwKey[c]

C26_KeyRotation == [][C26_IssueStep]_vars

\* C27: a searchPlacesAsync caller whose first lock attempt fails polls the
\* tracker at most PollAttempts (5) times and returns JOB with the tracked id
\* as soon as a poll finds one; after 5 polls that found none it makes one more
\* lock attempt and fails with the busy error if that fails too; and a job is
\* enqueued only by a caller whose token the lock key holds.
C27_Step ==
    \A c \in AsCallers :
        /\ asPolls[c] < PollAttempts
        /\ asPc[c] = "acquire" /\ asPc'[c] # "acquire" =>
              asPc'[c] = IF jobLock = Absent THEN "recheckCache" ELSE "poll"
        /\ asPc[c] = "poll" /\ (asPc'[c] # "poll" \/ asPolls'[c] # asPolls[c]) =>
              IF asTracker # 0
                THEN asPc'[c] = "done" /\ asRet'[c].type = "JOB" /\ asRet'[c].id = asTracker
                ELSE IF asPolls[c] < PollAttempts - 1
                THEN asPc'[c] = "poll" /\ asPolls'[c] = asPolls[c] + 1
                ELSE asPc'[c] = "acquireAgain"
        /\ asPc[c] = "acquireAgain" /\ asPc'[c] # "acquireAgain" =>
              IF jobLock = Absent
                THEN asPc'[c] = "recheckCache"
                ELSE asPc'[c] = "done" /\ asRet'[c].type = "BUSY"
        /\ asPc[c] = "enqueue" /\ asJobs' # asJobs =>
              asToken[c] # 0 /\ jobLock = asToken[c]

C27_PollThenRetry == [][C27_Step]_vars

\* C29: once a searchPlaces call has completed its search and cached the
\* result, a caller that lost the lock race and polls with waitForValue gets
\* that result (and so does not run executeSearchCore itself), and a
\* searchPlaces call that begins later is answered from the cache.
C29_Step ==
    \A c \in SpCallers :
        spCache # {} =>
            /\ spPc[c] = "wait" /\ (spPc'[c] # "wait" \/ spPolls'[c] # spPolls[c]) =>
                  /\ spPc'[c] = "release"
                  /\ spRet'[c].type = "CACHED"
                  /\ \E e \in spCache : spRet'[c].from = e[2]
            /\ spPc[c] = "idle" /\ spPc'[c] # "idle" =>
                  /\ spPc'[c] = "done"
                  /\ spRet'[c].type = "CACHED"
                  /\ \E e \in spCache : spRet'[c].from = e[2]

C29_LosersShare == [][C29_Step]_vars

\* a call that holds a lock token ends only through its finally block, which
\* has called releaseLock with that token; keyGone tells whether the lock key
\* must no longer hold the token after a release with this outcome
C28_Exit(pc, pcNext, token, retNext, lockNext, keyGone(_)) ==
    token # 0 /\ pc # "done" /\ pcNext = "done" =>
        /\ pc = "release"
        /\ retNext.type \in {"CACHED", "JOB", "RESULT", "ERROR"}
        /\ retNext.released \in {"returned", "swallowed"}
        /\ keyGone(retNext.released) => lockNext # token

C28_Always(released) == TRUE
C28_ScriptRan(released) == released = "returned"

\* C28 as stated: on every exit path of searchPlacesAsync and of searchPlaces
\* after a lock was acquired (return CACHED, return JOB, return of a result,
\* thrown error) the caller has called releaseLock with its own token and the
\* lock key does not hold that token afterwards.
C28_StepStated ==
    /\ \A c \in AsCallers :
          C28_Exit(asPc[c], asPc'[c], asToken[c], asRet'[c], jobLock', C28_Always)
    /\ \A c \in SpCallers :
          C28_Exit(spPc[c], spPc'[c], spToken[c], spRet'[c], spLock', C28_Always)

C28_ReleasedOnExit == [][C28_StepStated]_vars

\* C28 amended: on every such exit path the caller has called releaseLock
\* with its own token; the lock key does not hold that token afterwards when
\* the release script ran, while a rejected redis.eval is swallowed and leaves
\* the key to its expiry.
C28_StepAmended ==
    /\ \A c \in AsCallers :
          C28_Exit(asPc[c], asPc'[c], asToken[c], asRet'[c], jobLock', C28_ScriptRan)
    /\ \A c \in SpCallers :
          C28_Exit(spPc[c], spPc'[c], spToken[c], spRet'[c], spLock', C28_ScriptRan)

C28_ReleasedOnExitAmended == [][C28_StepAmended]_vars

\* a searchPlaces call that held the lock has thrown executeSearchCore's error
\* and its release script has removed the key
C28_Witness ==
    \E c \in SpCallers :
        /\ spPc[c] = "done"
        /\ spRet[c].type = "ERROR"
        /\ spRet[c].released = "returned"
        /\ spLock = Absent

\* C21: the in-flight counter equals, at all times, the number of
\* withInflightLimiter calls that have incremented it and not yet decremented
\* it (rejected calls included until their decrement); in particular it is 0
\* whenever no such call exists.
C21_CounterExact ==
    inflight = Cardinality({c \in IlCallers : gwPc[c] \in {"ilReject", "work", "ilDecr"}})

\* the step in which executeSearchCore reads the user and compares the balance
\* with the cost of the call: with a balance below the cost the call is over,
\* with the insufficient-balance error, and has done nothing else
C30_Step ==
    \A c \in BlCallers :
        blPc[c] = "idle" /\ blPc'[c] # "idle" /\ credits < requiredCredits(blKind'[c]) =>
            /\ blPc'[c] = "done"
            /\ blOutcome'[c] = "insufficient"
            /\ blUpstream'[c] = 0
            /\ ~blPersist'[c]
            /\ ~blCached'[c]
            /\ blDebit'[c] = 0 /\ blLedger'[c] = <<>>
            /\ credits' = credits

\* C30: a call that finds the balance below requiredCredits fails with the
\* insufficient-balance error before any provider request, any
\* persistAndPublish (place and lead upserts, publish), any cache write and
\* any debit or ledger entry.
C30_FailsFirst == [][C30_Step]_vars

\* a deep search of a user with 1..9 credits has just been refused untouched
C30_Witness ==
    \E c \in BlCallers :
        /\ blPc[c] = "done" /\ blOutcome[c] = "insufficient" /\ blKind[c] = "deepNew"
        /\ credits \in 1..9
        /\ blUpstream[c] = 0 /\ ~blPersist[c] /\ ~blCached[c]
        /\ blDebit[c] = 0 /\ blLedger[c] = <<>>


\* the ledger and the balance agree
C31_Books == blInitial - credits = -blLedgerAll

\* the billing transaction of a new search whose conditional decrement matches
\* no row, and the searchHistory records of any call
C31_Step ==
    /\ C31_Books /\ C31_Books'
    /\ \A c \in BlCallers :
          /\ blPc[c] = "bill" /\ blPc'[c] # "bill" /\ BlBranch(blKind[c]) = "B"
               /\ credits < requiredCredits(blKind[c]) =>
                  /\ blPc'[c] = "done" /\ blOutcome'[c] = "insufficient"
                  /\ blLedger'[c] = <<>> /\ blHistory'[c] = 0 /\ blDebit'[c] = 0
                  /\ ~blCached'[c]
                  /\ blPersist'[c] = blPersist[c]
                  /\ credits' = credits
          /\ blPc[c] = "done" /\ blOutcome[c] = "insufficient" => ~blCached'[c]
          /\ blHistory'[c] # 0 =>
                  /\ blKind'[c] \in {"new", "deepNew"}
                  /\ blHistory'[c] = 1
                  /\ blLedger'[c] = <<-requiredCredits(blKind'[c])>>

\* C31: the sum of the ledger debits always equals the amount removed from
\* the balance; a billing transaction whose conditional decrement matches no
\* row writes no ledger entry and no search-history record and the result is
\* not cached, while what the search persisted and published stays; a
\* search-history record is written only by a new search, with its ledger
\* entry, never by a continuation.
C31_AllOrNothing == [][C31_Step]_vars

\* a new search that persisted its places was refused by its billing
\* transaction because a concurrent call had spent the balance
C31_Witness ==
    \E c \in BlCallers :
        /\ blPc[c] = "done" /\ blOutcome[c] = "insufficient"
        /\ blUpstream[c] > 0 /\ blPersist[c]
        /\ blLedger[c] = <<>> /\ blHistory[c] = 0 /\ ~blCached[c]
        /\ blLedgerAll < 0

\* C32: following the tokens from a deep-search initiation that cached L
\* places, with no list key dropped: after the page at offset the token is
\* deep:<offset + DEEP_PAGE_SIZE> iff offset + DEEP_PAGE_SIZE < L and undefined
\* otherwise, the chain ends after max(1, ceil(L / DEEP_PAGE_SIZE)) pages, and
\* the pages received so far are the cached list up to the token, each place
\* once and in list order.
C32_Chain ==
    dpChain.live =>
        LET L == Len(dpIds)
            reach == dpChain.pages * dpPageSize
            ceil == (L + dpPageSize - 1) \div dpPageSize
        IN  /\ dpChain.next = (IF reach < L THEN reach ELSE 0)
            /\ dpChain.next = 0 => dpChain.pages = (IF ceil > 1 THEN ceil ELSE 1)
            /\ dpChain.got = Slice(dpIds, 0, reach)

\* C33: a deep:<offset> continuation served from the id list, the slim list
\* being gone, returns the places at positions [offset, offset + DEEP_PAGE_SIZE)
\* of the id list, in list order, and the nextPageToken the slim path gives.
C33_IdsFallback ==
    dpLast.op = "page" /\ dpLast.ok /\ ~dpHasSlim /\ dpHasIds =>
        /\ dpLast.places = Slice(dpIds, dpLast.token, dpLast.token + dpPageSize)
        /\ dpLast.next = DeepNext(dpLast.token + dpPageSize, Len(dpIds))

\* the moves of scrapeStatus that the lifecycle allows
Lifecycle ==
    {<<"none", "PENDING">>, <<"PENDING", "PROCESSING">>,
     <<"PROCESSING", "COMPLETED">>, <<"PROCESSING", "FAILED">>}

C34_Step ==
    /\ \A p \in 1..NEnPlaces :
          enStatus'[p] # enStatus[p] => <<enStatus[p], enStatus'[p]>> \in Lifecycle
    /\ \A s \in 1..NEnSearches :
          enSaved[s].scrapeStatus = "FAILED" /\ enSaved'[s] = NoSaved => enQueue' = enQueue

\* C34: across searches and enrichment-worker runs a place's scrapeStatus
\* only moves PENDING -> PROCESSING -> COMPLETED or FAILED: never backwards,
\* never away from COMPLETED or FAILED, and a search that finds the place
\* FAILED does not enqueue it again.
C34_Lifecycle == [][C34_Step]_vars

\* one step of a sector p of scanCity, as C35 has it
C35_Sector(p) ==
    \* a request goes out only from a running sector with no call under way,
    \* first without token, later with the token of the response before it
    /\ scReq[p] = NoReq /\ scReq'[p] # NoReq =>
          /\ scPc[p] = "run"
          /\ scReq'[p] = scTok[p]
          /\ IF scPages[p] = 0 THEN scTok[p] = 0 ELSE scTok[p] # 0
          /\ scPages[p] < scMaxPages
    \* a response ends the sector iff it has no token or was the last page allowed
    /\ scPages'[p] # scPages[p] =>
          /\ scReq[p] # NoReq /\ scReq'[p] = NoReq
          /\ scPages'[p] = scPages[p] + 1
          /\ (scPc'[p] = "returned") = (scTok'[p] = 0 \/ scPages'[p] >= scMaxPages)
    /\ scPages'[p] <= scMaxPages

\* C35: within a sector of scanCity the searchText calls follow one another:
\* a continuation is issued only after the previous response and carries its
\* nextPageToken; the sector stops at the first response without token or
\* after maxPagesPerGrid pages (3 by default).
C35_Sequential == [][\A p \in Sectors : C35_Sector(p)]_vars

\* under the default of 3 pages one sector is at its third request, carrying
\* a token, while the other sector's call is under way too
C35_Witness ==
    /\ scMaxPages = DefaultMaxPages
    /\ \E p, q \in Sectors :
          /\ p # q
          /\ scPages[p] = 2 /\ scReq[p] # NoReq /\ scReq[p] # 0
          /\ scReq[q] # NoReq

\* where id occurs first in the flattened sector results
C36_FirstAt(raw, id) == CHOOSE i \in DOMAIN raw : raw[i] = id /\ \A j \in 1..(i - 1) : raw[j] # id

C37_Step ==
    \A c \in AsCallers :
        asPc[c] = "idle" /\ asPc'[c] # "idle" /\ asCache # 0 =>
            /\ asPc'[c] = "done"
            /\ asRet'[c].type = "CACHED" /\ asRet'[c].id = asCache
            /\ asJobs' = asJobs /\ asRan' = asRan

\* C37: once a search for (city, keyword) is cached, a searchPlacesAsync
\* request for the same city, keyword and token returns that result as
\* CACHED whoever the user and whatever the deepSearch flag, and no job is
\* enqueued or run for it (so nothing is debited).
C37_SharedCache == [][C37_Step]_vars

\* the result of the job that one user's request enqueued was returned as
\* CACHED to another user's request with the opposite deepSearch flag
C37_Witness ==
    \E c, d \in AsCallers :
        /\ asRet[d].type = "JOB" /\ asRet[d].id = asCache
        /\ asPc[c] = "done" /\ asRet[c].type = "CACHED" /\ asRet[c].id = asCache
        /\ asReq[c].userId # asReq[d].userId
        /\ asReq[c].deepSearch # asReq[d].deepSearch

\* one step of a searchText call c, seen from withCircuitBreaker
C38_Call(c) ==
    \* whatever error leaves the limiter, its own rejection included, reaches
    \* the catch block of the breaker
    /\ gwPc[c] \in {"ilReject", "ilDecr"} /\ gwPc'[c] # gwPc[c]
         /\ (gwPc[c] = "ilReject" \/ gwErr[c] # "none") =>
            /\ gwPc'[c] = "cbIncr"
            /\ gwErr'[c] = (IF gwPc[c] = "ilReject" THEN "capacity" ELSE gwErr[c])
    \* where the failure counter goes up by one
    /\ gwPc[c] = "cbIncr" /\ gwPc'[c] # "cbIncr" => cbFailures' = cbFailures + 1
    \* a call that throws anything but the fast failure has been counted
    /\ gwPc[c] # "done" /\ gwPc'[c] = "done" /\ gwOutcome'[c] \notin {"ok", "unavailable"} =>
            gwPc[c] \in {"cbIncr", "cbDel"}
    \* the fast failure on OPEN leaves the counter alone
    /\ gwPc[c] # "done" /\ gwPc'[c] = "done" /\ gwOutcome'[c] = "unavailable" =>
            gwPc[c] = "idle" /\ cbFailures' = cbFailures

\* C38: every error leaving the breaker-wrapped body of searchText (the
\* limiter's rejection, the missing-credentials error, HTTP errors that are not
\* retried) increments the failure counter by exactly one; the counter changes
\* in no other way than that and its deletion when the breaker trips, and a
\* call that failed fast on OPEN leaves it unchanged.
C38_EveryErrorCounts ==
    [][/\ \A c \in GwCallers : C38_Call(c)
       /\ cbFailures' # cbFailures =>
             \E c \in GwCallers : /\ gwPc[c] \in {"cbIncr", "cbDel"}
                                   /\ gwPc'[c] # gwPc[c]]_vars

\* with credentials configured, the breaker has just been opened by a limiter
\* rejection, every failure counted before it having been one too
C38_Witness ==
    /\ apiKeys > 0
    /\ cbState = "OPEN" /\ ~cbOther
    /\ \E c \in GwCallers : gwPc[c] = "cbDel" /\ gwErr[c] = "capacity"

\* -------------------------------- scanCity's sectors at the in-flight limiter

Tiers == {"FREE", "STARTER", "PRO", "BUSINESS"}

\* baseGridSizeByTier, DEEP_SEARCH_BUSINESS_GRID_SIZE not set
baseGridSizeByTier(tier) ==
    CASE tier = "FREE" -> 3
      [] tier = "STARTER" -> 4
      [] tier = "PRO" -> 5
      [] tier = "BUSINESS" -> 10

\* remainingCredits >= 200 ? 2 : remainingCredits >= 50 ? 1 : 0
creditBoost(remainingCredits) ==
    IF remainingCredits >= 200 THEN 2 ELSE IF remainingCredits >= 50 THEN 1 ELSE 0

\* Math.min(baseGridSizeByTier[tier] + creditBoost, 12)
gridSize(tier, remainingCredits) ==
    LET g == baseGridSizeByTier(tier) + creditBoost(remainingCredits)
    IN  IF g < 12 THEN g ELSE 12

\* gridPoints.length: size = max(1, min(20, floor(gridSize))), one point per
\* row and column
GridPointsOf(g) ==
    LET size == IF g < 1 THEN 1 ELSE IF g > MaxGridSize THEN MaxGridSize ELSE g
    IN  size * size

\* const MAX_CONCURRENCY = 100
MAX_CONCURRENCY == 100

\* if (current > maxConcurrent)
OverCap(current, maxConcurrent) == current > maxConcurrent

\* the deep search of a user of any tier, its balance after the charge on
\* either side of each boost threshold
GsInit ==
    /\ LockStart /\ AsStart /\ BlStart(0) /\ GwStart(GwCallers, 0) /\ RlStart(0) /\ EnStart
    /\ SsStart(ProviderPageSize) /\ DpStart(1, 1) /\ ScStart(1) /\ GdStart(UnitViewport, 2)
    /\ SpStart
    /\ \E tier \in Tiers, remainingCredits \in {0, 49, 50, 199, 200} :
          GsStart(GridPointsOf(gridSize(tier, remainingCredits)))

\* Promise.all(gridPoints.map(async ...)) has started every sector; the
\* searchText of one of them, past the breaker (CLOSED), does
\* current = await redis.incr(key) and compares it with the cap
GsIncr ==
    /\ gsWaiting > 0
    /\ gsWaiting' = gsWaiting - 1
    /\ gsInflight' = gsInflight + 1
    /\ IF OverCap(gsInflight', MAX_CONCURRENCY)
         THEN gsRejecting' = gsRejecting + 1 /\ UNCHANGED gsHolding
         ELSE gsHolding' = gsHolding + 1 /\ UNCHANGED gsRejecting
    /\ UNCHANGED <<besidesGs, gsSectors, gsRejected>>

\* await redis.decr(key); throw new Error("Sistem yogun ..."): the breaker
\* counts the failure and rethrows, scanCity's catch returns [] for the sector
GsReject ==
    /\ gsRejecting > 0
    /\ gsRejecting' = gsRejecting - 1
    /\ gsInflight' = gsInflight - 1
    /\ gsRejected' = TRUE
    /\ UNCHANGED <<besidesGs, gsSectors, gsWaiting, gsHolding>>

\* the provider answers the request of a sector (one page, no
\* nextPageToken); finally { await redis.decr(key) }
GsResponse ==
    /\ gsHolding > 0
    /\ gsHolding' = gsHolding - 1
    /\ gsInflight' = gsInflight - 1
    /\ UNCHANGED <<besidesGs, gsSectors, gsWaiting, gsRejecting, gsRejected>>

GsNext ==
    \/ GsIncr
    \/ GsReject
    \/ GsResponse

SpecGridLimiter == GsInit /\ [][GsNext]_vars

\* C40: with no other upstream traffic and a healthy provider, every sector
\* of a scan over any grid the orchestrator can request issues its upstream
\* request: the in-flight limiter rejects none of them.
C40_NoSectorRejected == gsRejecting = 0 /\ ~gsRejected

\* calls j..k of the log were each run by Redis in the tick they were made in,
\* one after the other at intervals shorter than the window
C39_KeepsCalling(j, k) ==
    /\ \A i \in j..k : rlLog[i].done = rlLog[i].now
    /\ \A i \in j..(k - 1) : rlLog[i + 1].now - rlLog[i].now < WindowTicks

\* C39: every call is recorded in the window set, denied calls included; once
\* a call has been denied, no later call is allowed as long as the calls keep
\* coming at intervals shorter than the window.
C39_DeniedUntilQuiet ==
    rlLimit > 0 =>
        \A j, k \in DOMAIN rlLog :
            j < k /\ ~rlLog[j].allowed /\ C39_KeepsCalling(j, k) => ~rlLog[k].allowed

====
